---- MODULE Spec2Model ----
(***************************************************************************)
(* Model of the hashing and verification engine of File Hash Generator     *)
(* (src/main.py, class HashGenerator): calculate_file_hash, scan_location  *)
(* with its thread pool and completion loop, save_hashes and load_hashes   *)
(* with the JSON text between them, verify_integrity,                      *)
(* save_verification_report, and the shared stop flag; and of the button   *)
(* handlers of ModernHashGeneratorGUI that start and stop them.            *)
(*                                                                         *)
(* Paths are sequences of components; an absolute path starts with "/".    *)
(* A file's content is the sequence of chunks that successive              *)
(* f.read(chunk_size) calls return before the empty chunk of end of file.  *)
(***************************************************************************)
EXTENDS Integers, Sequences, FiniteSets, TLC

\* ------------------------------------------------------------------ bounds
MaxChunks == 2          \* a file holds 0..MaxChunks chunks
MaxWorkers == 2         \* max_workers is drawn from 1..MaxWorkers
MaxTouches == 1         \* at most MaxTouches files are rewritten or deleted
MaxFlagCalls == 1       \* stop_operation and reset_stop_event are called at
                        \* most MaxFlagCalls times while one operation runs

\* ------------------------------------------------------------ basic values
\* Python's None where a path or a digest may stand
None == <<"None">>

\* no exception
NoException == "None"

EmptyMap == [x \in {} |-> None]

\* the None that load_hashes returns
NoData == [none |-> TRUE]

\* a hash file that cannot be opened or is not JSON
Unreadable == [unreadable |-> TRUE]

Put(m, k, v) == [x \in DOMAIN m \cup {k} |-> IF x = k THEN v ELSE m[x]]

\* ------------------------------------------------------------ file system
ScanRoot == <<"/", "d">>
SubDir == <<"/", "d", "s">>
AltRoot == <<"/", "e">>
Cwd == AltRoot
NoSuchLocation == <<"/", "x">>

Directories == {<<"/">>, ScanRoot, SubDir, AltRoot}

\* the orders in which os.scandir may list the names of one directory
NameOrders == {<<"a", "b">>, <<"b", "a">>}

TreeFiles == {ScanRoot \o <<"a">>, ScanRoot \o <<"b">>, SubDir \o <<"a">>}

AllFiles == TreeFiles \cup {AltRoot \o <<"a">>, AltRoot \o <<"b">>}

Missing == [kind |-> "missing", mode |-> "none", content |-> <<>>]

RegularFile(c) == [kind |-> "file", mode |-> "ok", content |-> c]

\* a file that exists but whose open() raises PermissionError
NoPermFile == [kind |-> "file", mode |-> "noperm", content |-> <<>>]

\* a file that opens but whose read() raises IOError
IoErrFile == [kind |-> "file", mode |-> "ioerr", content |-> <<>>]

Prefix(n) == [i \in 1..n |-> i]

Contents == {Prefix(n) : n \in 0..MaxChunks}

FileStates == {Missing, NoPermFile, IoErrFile} \cup {RegularFile(c) : c \in Contents}

IsAbs(p) == Len(p) > 0 /\ p[1] = "/"

\* os.path.join(a, b)
Join(a, b) == IF IsAbs(b) THEN b ELSE a \o b

\* what a path that names nothing resolves to
NoSuchFile == <<"?">>

\* pathname resolution from the directory at: "." names the directory reached
\* so far and ".." its parent, and both name nothing after a component that
\* is not a directory
RECURSIVE Lookup(_, _)
Lookup(at, rest) ==
  IF rest = <<>> THEN at
  ELSE IF Head(rest) \in {".", ".."}
    THEN IF at \notin Directories THEN NoSuchFile
         ELSE Lookup(IF Head(rest) = ".." /\ Len(at) > 1
                       THEN SubSeq(at, 1, Len(at) - 1) ELSE at,
                     Tail(rest))
  ELSE Lookup(Append(at, Head(rest)), Tail(rest))

\* the file a path string names, relative paths being taken from the cwd;
\* the empty string names nothing
Resolve(p) ==
  IF p = <<>> THEN NoSuchFile
  ELSE IF IsAbs(p) THEN Lookup(<<"/">>, Tail(p))
  ELSE Lookup(Cwd, p)

StateOf(f, p) == IF Resolve(p) \in DOMAIN f THEN f[Resolve(p)] ELSE Missing

\* os.path.isfile / os.path.isdir / os.path.exists
IsFile(f, p) == StateOf(f, p).kind = "file"

IsDir(f, p) == Resolve(p) \in Directories

Exists(f, p) == IsFile(f, p) \/ IsDir(f, p)

\* ----------------------------------------------------------------- hashing
TABLE_ALGORITHMS == {"MD5", "SHA1", "SHA-3", "SHA256", "SHA512", "xxHash64",
                     "Blake2b", "Blake3", "CRC32"}

\* _get_supported_algorithms: the table filtered by what can be constructed
GetSupportedAlgorithms(xx, b3) ==
  {a \in TABLE_ALGORITHMS :
      \/ a = "CRC32"
      \/ a = "xxHash64" /\ xx
      \/ a = "Blake3" /\ b3
      \/ a \notin {"CRC32", "xxHash64", "Blake3"}}

\* The digest functions themselves (hashlib, zlib.crc32) are library code; they
\* are modelled as a fold over the chunks into a two-hex-digit state, so that
\* digests depend on the algorithm, on every chunk and on the chunks' order,
\* and distinct contents may collide.
HashModulus == 16 * 16

HashInit(alg) == IF alg = "CRC32" THEN 0 ELSE 1 + Len(alg)

HashUpdate(alg, h, chunk) ==
  IF alg = "CRC32" THEN (h * 2 + chunk) % HashModulus
  ELSE (h * 31 + chunk + Len(alg)) % HashModulus

HexChars == <<"0", "1", "2", "3", "4", "5", "6", "7", "8", "9",
              "a", "b", "c", "d", "e", "f">>

\* hexdigest(): the state rendered as a two-digit lowercase hex string
HexDigest(h) ==
  <<HexChars[((h \div 16) % 16) + 1], HexChars[(h % 16) + 1]>>

RECURSIVE FoldChunks(_, _, _)
FoldChunks(alg, h, c) ==
  IF c = <<>> THEN h ELSE FoldChunks(alg, HashUpdate(alg, h, Head(c)), Tail(c))

\* the digest of a whole content, computed in one go
DigestOf(alg, c) == HexDigest(FoldChunks(alg, HashInit(alg), c))

\* ------------------------------------------------------- files written
\* An output file name is its stem followed by its extension.
ManifestNames == {<<"m", ".json">>, <<"m", ".dat">>}

ReportNames == {<<"r", ".json">>, <<"r", ".dat">>}

\* str.replace(old, new) on a file name
Replace(name, old, new) ==
  [i \in DOMAIN name |-> IF name[i] = old THEN new ELSE name[i]]

\* datetime.now().strftime("%Y%m%d_%H%M%S"), when a thread saves
Timestamps == {"T1"}

\* lines 849-850: f"hash_results_{timestamp}.json"
AutoManifestName(ts) == <<"hash_results_", ts, ".json">>

\* lines 981-982: f"verification_report_{timestamp}.json"
AutoReportName(ts) == <<"verification_report_", ts, ".json">>

AllManifestNames == ManifestNames \cup {AutoManifestName(ts) : ts \in Timestamps}

AllReportNames == ReportNames \cup {AutoReportName(ts) : ts \in Timestamps}

\* a hash file that was there before the program was started
GivenHashFile == <<"given", ".json">>

DiskNames ==
  {GivenHashFile} \cup AllManifestNames
  \cup {Replace(n, ".json", "_errors.txt") : n \in AllManifestNames}
  \cup AllReportNames
  \cup {Replace(n, ".json", "_corrupted.txt") : n \in AllReportNames}

\* a name under which the disk holds no file
NoFile == [exists |-> FALSE, text |-> <<>>]

\* a file holding a text; the text is empty between open(name, 'w') and the
\* write
FileOf(text) == [exists |-> TRUE, text |-> text]

\* lines 230, 236, 360 and 366: open(name, 'w') creates the file or empties it
Opened(d, name) == [d EXCEPT ![name] = FileOf(<<>>)]

\* no output file exists yet
EmptyDisk == [n \in DiskNames |-> NoFile]

\* st_mtime of a file nobody wrote to since the model's first state
InitialMtime == 1

\* os.path.dirname
Dirname(p) == SubSeq(p, 1, Len(p) - 1)

\* the length of the longest common prefix of two paths
CommonLen(a, b) ==
  LET same == {k \in 0..Len(a) : k <= Len(b) /\ SubSeq(a, 1, k) = SubSeq(b, 1, k)}
  IN CHOOSE k \in same : \A j \in same : j <= k

\* RelPath keeping the file name only
RelPathBasename(p, start) == <<p[Len(p)]>>

\* os.path.relpath(p, start), both absolute
RelPath(p, start) ==
  LET c == CommonLen(p, start)
      r == [i \in 1..(Len(start) - c) |-> ".."] \o SubSeq(p, c + 1, Len(p))
  IN IF r = <<>> THEN <<".">> ELSE r

\* lines 213-220: os.stat, the zeros staying when it raises
Stat(f, mt, p) ==
  IF IsFile(f, p)
    THEN [st_size |-> Len(StateOf(f, p).content), st_mtime |-> mt[Resolve(p)]]
    ELSE [st_size |-> 0, st_mtime |-> 0]

\* -------------------------------------------------------------------- JSON
\* A JSON value: a string (held as a sequence of its parts), a number, an
\* object (its members in order) or an array.
JStr(str) == [t |-> "str", s |-> str, n |-> 0, kv |-> <<>>]

JNum(num) == [t |-> "num", s |-> <<>>, n |-> num, kv |-> <<>>]

JObj(members) == [t |-> "obj", s |-> <<>>, n |-> 0, kv |-> members]

JArr(elems) == [t |-> "arr", s |-> <<>>, n |-> 0, kv |-> elems]

Member(key, value) == [k |-> key, v |-> value]

\* the text of a file is a sequence of tokens
Tok(type, str, num) == [t |-> type, s |-> str, n |-> num]

RECURSIVE JsonDump(_), DumpMembers(_), DumpElems(_)
RECURSIVE JsonParse(_), ParseMembers(_, _), ParseElems(_, _)

\* JsonDump writing every number as a string
JsonDumpNumbersAsStrings(v) ==
  IF v.t = "obj"
    THEN <<Tok("{", <<>>, 0)>> \o DumpMembers(v.kv) \o <<Tok("}", <<>>, 0)>>
  ELSE IF v.t = "arr"
    THEN <<Tok("[", <<>>, 0)>> \o DumpElems(v.kv) \o <<Tok("]", <<>>, 0)>>
  ELSE IF v.t = "str" THEN <<Tok("str", v.s, 0)>>
  ELSE <<Tok("str", <<"number">>, 0)>>

\* json.dump
JsonDump(v) ==
  IF v.t = "obj"
    THEN <<Tok("{", <<>>, 0)>> \o DumpMembers(v.kv) \o <<Tok("}", <<>>, 0)>>
  ELSE IF v.t = "arr"
    THEN <<Tok("[", <<>>, 0)>> \o DumpElems(v.kv) \o <<Tok("]", <<>>, 0)>>
  ELSE IF v.t = "str" THEN <<Tok("str", v.s, 0)>>
  ELSE <<Tok("num", <<>>, v.n)>>

DumpMembers(kv) ==
  IF kv = <<>> THEN <<>>
  ELSE <<Tok("key", Head(kv).k, 0)>> \o JsonDump(Head(kv).v)
       \o DumpMembers(Tail(kv))

DumpElems(elems) ==
  IF elems = <<>> THEN <<>>
  ELSE JsonDump(Head(elems)) \o DumpElems(Tail(elems))

\* d[key] = value on the members of an object being built
MemberPut(kv, key, value) ==
  IF \E i \in DOMAIN kv : kv[i].k = key
    THEN [i \in DOMAIN kv |-> IF kv[i].k = key THEN Member(key, value) ELSE kv[i]]
    ELSE Append(kv, Member(key, value))

\* json.load on a well-formed text: the value read and the tokens left
JsonParse(toks) ==
  LET h == Head(toks) IN
  IF h.t = "{"
    THEN LET r == ParseMembers(Tail(toks), <<>>)
         IN [v |-> JObj(r.acc), rest |-> r.rest]
  ELSE IF h.t = "["
    THEN LET r == ParseElems(Tail(toks), <<>>)
         IN [v |-> JArr(r.acc), rest |-> r.rest]
  ELSE IF h.t = "str" THEN [v |-> JStr(h.s), rest |-> Tail(toks)]
  ELSE [v |-> JNum(h.n), rest |-> Tail(toks)]

ParseMembers(toks, acc) ==
  IF Head(toks).t = "}" THEN [acc |-> acc, rest |-> Tail(toks)]
  ELSE LET r == JsonParse(Tail(toks))
       IN ParseMembers(r.rest, MemberPut(acc, Head(toks).s, r.v))

ParseElems(toks, acc) ==
  IF Head(toks).t = "]" THEN [acc |-> acc, rest |-> Tail(toks)]
  ELSE LET r == JsonParse(toks)
       IN ParseElems(r.rest, Append(acc, r.v))

Keys(obj) == {obj.kv[i].k : i \in DOMAIN obj.kv}

\* obj[key]
Field(obj, key) ==
  obj.kv[CHOOSE i \in DOMAIN obj.kv : obj.kv[i].k = key].v

\* a line of a plain-text listing
TextLine(str) == Tok("text", str, 0)

\* ------------------------------------------------- calculate_file_hash
\* A call of calculate_file_hash: st is "queued" (submitted, in the pool's
\* queue), "taken" (a worker has taken it from the queue and has not yet
\* entered the function), "running" (inside the read loop, file open) or
\* "done" (returned ret).
\* caught names the exception the call's own except clauses swallowed,
\* raised the exception that left the call (none does: line 123 catches all).
QueuedCall(p) ==
  [path |-> p, st |-> "queued", open |-> FALSE, pos |-> 0, h |-> 0,
   ret |-> None, caught |-> NoException, raised |-> NoException]

\* ReturnFrom with the file left open when the call returns
ReturnFromKeepsOpen(call, value, exc) ==
  [call EXCEPT !.st = "done", !.ret = value, !.caught = exc]

\* the call returns: the with block of line 82, 92, 102 or 112 closes the file
ReturnFrom(call, value, exc) ==
  [call EXCEPT !.st = "done", !.open = FALSE, !.ret = value, !.caught = exc]

\* lines 75-112: the algorithm test, the hasher, and open(file_path, 'rb')
CalcEnter(call, alg, f, avail) ==
  IF alg \notin avail
    THEN ReturnFrom(call, None, "ValueError")
  ELSE IF ~IsFile(f, call.path) \/ StateOf(f, call.path).mode = "noperm"
    THEN ReturnFrom(call, None, "OSError")
  ELSE [call EXCEPT !.st = "running", !.open = TRUE, !.pos = 0,
                    !.h = HashInit(alg)]

\* CalcRead with the loop ended by the last chunk instead of the empty one:
\* the last chunk is read and never fed to the hasher
CalcReadDropsLastChunk(call, alg, f, stop) ==
  LET s == StateOf(f, call.path) IN
  IF s.mode = "ioerr"
    THEN ReturnFrom(call, None, "OSError")
  ELSE IF call.pos + 1 >= Len(s.content)
    THEN ReturnFrom(call, HexDigest(call.h), NoException)
  ELSE IF stop
    THEN ReturnFrom(call, None, NoException)
  ELSE [call EXCEPT !.pos = call.pos + 1,
                    !.h = HashUpdate(alg, call.h, s.content[call.pos + 1])]

\* lines 113-118: one turn of  while chunk := f.read(chunk_size)
CalcRead(call, alg, f, stop) ==
  LET s == StateOf(f, call.path) IN
  IF s.mode = "ioerr"
    THEN ReturnFrom(call, None, "OSError")
  ELSE IF call.pos = Len(s.content)
    THEN ReturnFrom(call, HexDigest(call.h), NoException)
  ELSE IF stop
    THEN ReturnFrom(call, None, NoException)
  ELSE [call EXCEPT !.pos = call.pos + 1,
                    !.h = HashUpdate(alg, call.h, s.content[call.pos + 1])]

\* ------------------------------------------------------------------- state
VARIABLES
  fs,               \* absolute path -> file state
  available,        \* SUPPORTED_ALGORITHMS
  mtimes,           \* absolute path -> time of the last change to the file
  disk,             \* output file name -> the file of that name, or NoFile
  output_file,      \* the output_file argument of the last save_hashes or
                    \* save_verification_report
  stop_event,       \* the shared threading.Event
  was_stopped,      \* the flag was set at some moment of the current operation
  flag_calls,       \* the calls of stop_operation and reset_stop_event made
                    \* while the current operation was running
  stop_at_start,    \* the flag was set when the current operation was called
  raised,           \* the exception that left the current operation, or None
  pc,               \* where scan_location is
  location, algorithm, max_workers,     \* scan_location's arguments
  walk_todo,        \* directories os.walk has still to yield
  file_list, futures, collected,
  results, error_files, completed_files,
  progress,         \* the progress_callback calls made, in order
  late_opens,       \* files opened by a task that entered with the flag set
  vpc,              \* where verify_integrity is
  manifest,         \* what load_hashes returned
  base_path,
  v_todo,           \* entries of hashes.items() not yet visited
  current_path,
  v_call,           \* the running calculate_file_hash call
  hash_calls,       \* the paths verify_integrity handed to calculate_file_hash
  v_results, corrupted_files, v_error_files, v_completed_files, v_progress,
  generate_btn, stop_btn, save_btn, \* the state of the buttons of the
  verify_btn, verify_stop_btn,      \* Generate tab and of the Verify tab
  save_report_btn,
  gui_hash_file,    \* the hash_file that verify_files handed to verify_thread
  auto_filename,    \* the auto_filename of hash_thread
  report_filename,  \* the auto_filename of verify_thread
  tk_error          \* the exception a button handler last left to Tk

guiVars == <<generate_btn, stop_btn, save_btn, verify_btn, verify_stop_btn,
             save_report_btn, gui_hash_file, auto_filename, report_filename,
             tk_error>>

envVars == <<fs, available, mtimes, disk, output_file>>

scanVars == <<pc, location, algorithm, max_workers, walk_todo, file_list,
              futures, collected, results, error_files, completed_files,
              progress, late_opens>>

verifyVars == <<vpc, manifest, base_path, v_todo, current_path, v_call,
                hash_calls, v_results, corrupted_files, v_error_files,
                v_completed_files, v_progress>>

vars == <<guiVars, envVars, stop_event, was_stopped, flag_calls, stop_at_start, raised, scanVars,
          verifyVars>>

NoCall == QueuedCall(<<>>)

Idle ==
  /\ pc \in {"idle", "returned", "saved"}
  /\ vpc \in {"idle", "returned", "reported"}

\* ReportProgress with the callback skipped for the last file
ReportProgressButLast(calls, completed, total, path) ==
  IF completed < total THEN Append(calls, <<completed, total, path>>) ELSE calls

\* ReportProgress with the callback made twice
ReportProgressTwice(calls, completed, total, path) ==
  Append(Append(calls, <<completed, total, path>>), <<completed, total, path>>)

\* ReportProgress with the count taken before its increment
ReportProgressFromZero(calls, completed, total, path) ==
  Append(calls, <<completed - 1, total, path>>)

\* progress_callback(completed_files, total_files, path)
ReportProgress(calls, completed, total, path) ==
  Append(calls, <<completed, total, path>>)

\* ----------------------------------------------------------- scan_location
IsPrefix(a, b) == Len(a) <= Len(b) /\ SubSeq(b, 1, Len(a)) = a

DirOrder == <<ScanRoot, SubDir, AltRoot>>

\* the directories os.walk(loc) yields, top-down
WalkOrder(loc) == SelectSeq(DirOrder, LAMBDA d : IsPrefix(loc, d))

\* lines 143-146: the regular files directly in directory d
FilesIn(f, d, names) ==
  SelectSeq([i \in 1..Len(names) |-> Join(d, <<names[i]>>)],
            LAMBDA p : IsFile(f, p))

Locations == {ScanRoot, ScanRoot \o <<"a">>, NoSuchLocation}

RequestedAlgorithms == {"SHA256", "CRC32", "xxHash64", "UNKNOWN"}

Indices == 1..Len(file_list)

Running == {i \in Indices : futures[i].st = "running"}

Queued == {i \in Indices : futures[i].st = "queued"}

Taken == {i \in Indices : futures[i].st = "taken"}

Done == {i \in Indices : futures[i].st = "done"}

\* lines 131-139: the locals, and the isfile / isdir test
ScanLocals(loc) ==
  /\ results' = EmptyMap /\ error_files' = <<>>
  /\ completed_files' = 0 /\ progress' = <<>>
  /\ futures' = <<>> /\ collected' = {} /\ late_opens' = {}
  /\ raised' = NoException
  /\ IF IsFile(fs, loc)
       THEN file_list' = <<loc>> /\ walk_todo' = <<>> /\ pc' = "listed"
     ELSE IF IsDir(fs, loc)
       THEN file_list' = <<>> /\ walk_todo' = WalkOrder(loc) /\ pc' = "walk"
     ELSE file_list' = <<>> /\ walk_todo' = <<>> /\ pc' = "listed"

\* scan_location called on the engine while nothing else runs
ScanStart(loc, alg, mw) ==
  /\ Idle
  /\ location' = loc /\ algorithm' = alg /\ max_workers' = mw
  /\ ScanLocals(loc)
  /\ was_stopped' = stop_event /\ stop_at_start' = stop_event
  /\ flag_calls' = 0
  /\ vpc' = "idle" /\ manifest' = NoData /\ base_path' = None
  /\ v_todo' = <<>> /\ current_path' = None /\ v_call' = NoCall
  /\ hash_calls' = <<>> /\ v_results' = EmptyMap /\ corrupted_files' = <<>>
  /\ v_error_files' = <<>> /\ v_completed_files' = 0 /\ v_progress' = <<>>
  /\ UNCHANGED <<guiVars, envVars, stop_event>>

\* lines 140-146: one directory of the os.walk loop
WalkDir ==
  /\ pc = "walk"
  /\ IF walk_todo = <<>> \/ stop_event
       THEN pc' = "listed" /\ UNCHANGED <<file_list, walk_todo>>
       ELSE /\ \E names \in NameOrders :
                 file_list' = file_list \o FilesIn(fs, Head(walk_todo), names)
            /\ walk_todo' = Tail(walk_todo)
            /\ pc' = "walk"
  /\ UNCHANGED <<guiVars, envVars, stop_event, was_stopped, flag_calls, stop_at_start, raised, location, algorithm,
                 max_workers, futures, collected, results, error_files,
                 completed_files, progress, late_opens, verifyVars>>

\* lines 151-162: the empty-list return, else every file submitted at once
Submit ==
  /\ pc = "listed"
  /\ IF Len(file_list) = 0
       THEN pc' = "returned" /\ futures' = <<>>
       ELSE /\ pc' = "pool"
            /\ futures' = [i \in 1..Len(file_list) |-> QueuedCall(file_list[i])]
  /\ UNCHANGED <<guiVars, envVars, stop_event, was_stopped, flag_calls, stop_at_start, raised, location, algorithm,
                 max_workers, walk_todo, file_list, collected, results,
                 error_files, completed_files, progress, late_opens,
                 verifyVars>>

\* TaskTake with a thread for every task, whatever max_workers is
TaskTakeUnbounded ==
  /\ pc \in {"pool", "shutdown"}
  /\ Queued # {}
  /\ LET i == CHOOSE q \in Queued : \A r \in Queued : q <= r
     IN futures' = [futures EXCEPT ![i].st = "taken"]
  /\ UNCHANGED <<guiVars, envVars, stop_event, was_stopped, flag_calls, stop_at_start, raised, pc, location,
                 algorithm, max_workers, walk_todo, file_list, collected,
                 results, error_files, completed_files, progress, late_opens,
                 verifyVars>>

\* line 157: one of the pool's max_workers threads, being free, takes the
\* oldest task from the queue
TaskTake ==
  /\ pc \in {"pool", "shutdown"}
  /\ Queued # {}
  /\ Cardinality(Taken \cup Running) < max_workers
  /\ LET i == CHOOSE q \in Queued : \A r \in Queued : q <= r
     IN futures' = [futures EXCEPT ![i].st = "taken"]
  /\ UNCHANGED <<guiVars, envVars, stop_event, was_stopped, flag_calls, stop_at_start, raised, pc, location,
                 algorithm, max_workers, walk_todo, file_list, collected,
                 results, error_files, completed_files, progress, late_opens,
                 verifyVars>>

\* the worker that took task i enters calculate_file_hash
TaskEnter(i) ==
  /\ pc \in {"pool", "shutdown"}
  /\ i \in Taken
  /\ LET c == CalcEnter(futures[i], algorithm, fs, available)
     IN /\ futures' = [futures EXCEPT ![i] = c]
        /\ late_opens' = IF c.open /\ stop_event
                           THEN late_opens \cup {c.path} ELSE late_opens
  /\ UNCHANGED <<guiVars, envVars, stop_event, was_stopped, flag_calls, stop_at_start, raised, pc, location,
                 algorithm, max_workers, walk_todo, file_list, collected,
                 results, error_files, completed_files, progress, verifyVars>>

\* TaskChunk with the worker itself recording the result of a finished call
TaskChunkWritesResult(i) ==
  /\ pc \in {"pool", "shutdown"}
  /\ i \in Running
  /\ LET c == CalcRead(futures[i], algorithm, fs, stop_event)
     IN /\ futures' = [futures EXCEPT ![i] = c]
        /\ IF c.st = "done" /\ c.ret # None
             THEN /\ results' = Put(results, c.path, c.ret)
                  /\ completed_files' = completed_files + 1
             ELSE UNCHANGED <<results, completed_files>>
  /\ UNCHANGED <<guiVars, envVars, stop_event, was_stopped, flag_calls, stop_at_start, raised, pc,
                 location, algorithm, max_workers, walk_todo, file_list,
                 collected, error_files, progress, late_opens, verifyVars>>

\* a worker reads the next chunk of its file
TaskChunk(i) ==
  /\ pc \in {"pool", "shutdown"}
  /\ i \in Running
  /\ futures' = [futures EXCEPT ![i] = CalcRead(@, algorithm, fs, stop_event)]
  /\ UNCHANGED <<guiVars, envVars, stop_event, was_stopped, flag_calls, stop_at_start, raised, pc, location,
                 algorithm, max_workers, walk_todo, file_list, collected,
                 results, error_files, completed_files, progress, late_opens,
                 verifyVars>>

\* RecordResult without the else branch of line 174: a None is dropped
RecordResultNoElse(res, errs, call) ==
  IF call.raised # NoException
    THEN [results |-> res,
          error_files |-> Append(errs, call.path \o <<" - Error: ", call.raised>>)]
  ELSE IF call.ret # None /\ call.ret # <<>>
    THEN [results |-> Put(res, call.path, call.ret), error_files |-> errs]
  ELSE [results |-> res, error_files |-> errs]

\* lines 170-178: future.result() recorded in results or in error_files
RecordResult(res, errs, call) ==
  IF call.raised # NoException
    THEN [results |-> res,
          error_files |-> Append(errs, call.path \o <<" - Error: ", call.raised>>)]
  ELSE IF call.ret # None /\ call.ret # <<>>
    THEN [results |-> Put(res, call.path, call.ret), error_files |-> errs]
  ELSE [results |-> res, error_files |-> Append(errs, call.path)]

\* lines 165-182: as_completed yields a finished future
Collect(i) ==
  /\ pc = "pool"
  /\ i \in Done \ collected
  /\ IF stop_event
       THEN /\ pc' = "shutdown"
            /\ UNCHANGED <<collected, results, error_files, completed_files,
                           progress>>
       ELSE LET r == RecordResult(results, error_files, futures[i])
            IN /\ results' = r.results
               /\ error_files' = r.error_files
               /\ collected' = collected \cup {i}
               /\ completed_files' = completed_files + 1
               /\ progress' = ReportProgress(progress, completed_files + 1,
                                             Len(file_list), file_list[i])
               /\ pc' = "pool"
  /\ UNCHANGED <<guiVars, envVars, stop_event, was_stopped, flag_calls, stop_at_start, raised, location, algorithm,
                 max_workers, walk_todo, file_list, futures, late_opens,
                 verifyVars>>

\* ScanReturn with an executor that does not wait for its tasks
ScanReturnNoWait ==
  /\ \/ pc = "pool" /\ collected = Indices
     \/ pc = "shutdown"
  /\ pc' = "returned"
  /\ UNCHANGED <<guiVars, envVars, stop_event, was_stopped, flag_calls, stop_at_start, raised, location, algorithm,
                 max_workers, walk_todo, file_list, futures, collected,
                 results, error_files, completed_files, progress, late_opens,
                 verifyVars>>

\* lines 183-184: the with block ends (shutdown waits for every task), return
ScanReturn ==
  /\ \/ pc = "pool" /\ collected = Indices
     \/ pc = "shutdown"
  /\ Done = Indices
  /\ pc' = "returned"
  /\ flag_calls' = 0
  /\ UNCHANGED <<guiVars, envVars, stop_event, was_stopped, stop_at_start,
                 raised, location, algorithm, max_workers, walk_todo, file_list, futures, collected,
                 results, error_files, completed_files, progress, late_opens,
                 verifyVars>>

\* --------------------------------------------------------------- save_hashes
Application == "File Hash Generator v2.0"

\* datetime.now().isoformat()
Timestamp == "now"

\* hash_data.items(): the digested paths in the order the loop inserted them
ResultOrder(calls, res) ==
  SelectSeq([i \in DOMAIN calls |-> calls[i][3]], LAMBDA p : p \in DOMAIN res)

\* line 205
SaveBase(f, loc) == IF IsFile(f, loc) THEN Dirname(loc) ELSE loc

\* lines 222-227: one value of data['hashes'], with its key
HashEntry(rel_path, hash_value, file_path, stat) ==
  [rel_path |-> rel_path, hash |-> hash_value, full_path |-> file_path,
   size |-> stat.st_size, modified |-> stat.st_mtime]

\* data['hashes'][rel_path] = ...
DictPut(items, e) ==
  IF \E i \in DOMAIN items : items[i].rel_path = e.rel_path
    THEN [i \in DOMAIN items |->
            IF items[i].rel_path = e.rel_path THEN e ELSE items[i]]
    ELSE Append(items, e)

\* lines 207-227: the loop over hash_data.items()
RECURSIVE HashesOf(_, _, _, _, _, _)
HashesOf(acc, paths, res, base, f, mt) ==
  IF paths = <<>> THEN acc
  ELSE LET fp == Head(paths)
       IN HashesOf(DictPut(acc, HashEntry(RelPath(fp, base), res[fp], fp,
                                          Stat(f, mt, fp))),
                   Tail(paths), res, base, f, mt)

\* lines 191-227: the dict that is dumped
ManifestData(order, res, errs, alg, loc, f, mt) ==
  [metadata |-> [algorithm |-> alg, scan_location |-> loc,
                 timestamp |-> Timestamp,
                 total_files |-> Cardinality(DOMAIN res),
                 error_files |-> Len(errs), application |-> Application],
   hashes |-> HashesOf(<<>>, order, res, SaveBase(f, loc), f, mt),
   errors |-> errs]

\* the manifest dict as a JSON value
ManifestJson(d) ==
  JObj(<<
    Member(<<"metadata">>, JObj(<<
      Member(<<"algorithm">>, JStr(<<d.metadata.algorithm>>)),
      Member(<<"scan_location">>, JStr(d.metadata.scan_location)),
      Member(<<"timestamp">>, JStr(<<d.metadata.timestamp>>)),
      Member(<<"total_files">>, JNum(d.metadata.total_files)),
      Member(<<"error_files">>, JNum(d.metadata.error_files)),
      Member(<<"application">>, JStr(<<d.metadata.application>>))>>)),
    Member(<<"hashes">>, JObj([i \in DOMAIN d.hashes |->
      Member(d.hashes[i].rel_path, JObj(<<
        Member(<<"hash">>, JStr(d.hashes[i].hash)),
        Member(<<"full_path">>, JStr(d.hashes[i].full_path)),
        Member(<<"size">>, JNum(d.hashes[i].size)),
        Member(<<"modified">>, JNum(d.hashes[i].modified))>>))])),
    Member(<<"errors">>, JArr([i \in DOMAIN d.errors |-> JStr(d.errors[i])]))>>)

\* the dict json.load builds from a manifest text, seen as verify_integrity
\* reads it: hash_data['metadata'], hash_data['hashes'].items() with
\* file_info['hash'] and file_info.get('full_path', '')
ManifestFromJson(j) ==
  [name \in {k[1] : k \in Keys(j)} |->
     LET v == Field(j, <<name>>) IN
     IF name = "metadata"
       THEN [m \in {k[1] : k \in Keys(v)} |->
               LET x == Field(v, <<m>>) IN
               IF x.t = "num" THEN x.n
               ELSE IF m = "scan_location" THEN x.s
               ELSE x.s[1]]
     ELSE IF name = "hashes"
       THEN [i \in DOMAIN v.kv |->
               LET info == v.kv[i].v IN
               [rel_path |-> v.kv[i].k,
                hash |-> Field(info, <<"hash">>).s,
                full_path |-> IF <<"full_path">> \in Keys(info)
                                THEN Field(info, <<"full_path">>).s ELSE <<>>,
                size |-> Field(info, <<"size">>).n,
                modified |-> Field(info, <<"modified">>).n]]
     ELSE [i \in DOMAIN v.kv |-> v.kv[i].s]]

\* lines 254-255: open(hash_file) and json.load; a missing file, an empty
\* file and a text that is not JSON all raise
JsonLoadFile(file) ==
  IF ~file.exists THEN Unreadable
  ELSE IF file.text = <<>> THEN Unreadable
  ELSE IF Head(file.text).t = "text" THEN Unreadable
  ELSE ManifestFromJson(JsonParse(file.text).v)

\* lines 237-243: the plain-text error listing
ErrorListing(errs, alg, loc) ==
  <<TextLine(<<"Error Report - ", Timestamp>>),
    TextLine(<<"Scan Location: ">> \o loc),
    TextLine(<<"Algorithm: ", alg>>),
    TextLine(<<"Files with errors:">>)>>
  \o [i \in DOMAIN errs |-> TextLine(errs[i])]

\* WriteHashes with the error listing written whatever the error list holds
WriteHashesAlwaysListing(d, name, data, errs, alg, loc) ==
  [d EXCEPT ![name] = FileOf(JsonDump(ManifestJson(data))),
            ![Replace(name, ".json", "_errors.txt")] =
               FileOf(ErrorListing(errs, alg, loc))]

\* lines 229-243: what the two open(..., 'w') leave on the disk
WriteHashes(d, name, data, errs, alg, loc) ==
  LET main == [d EXCEPT ![name] = FileOf(JsonDump(ManifestJson(data)))]
  IN IF errs # <<>>
       THEN [main EXCEPT ![Replace(name, ".json", "_errors.txt")] =
                            FileOf(ErrorListing(errs, alg, loc))]
       ELSE main

\* lines 186-249, called with what scan_location returned
HashesSaved(name, alg, loc) ==
  WriteHashes(disk, name,
              ManifestData(ResultOrder(progress, results), results,
                           error_files, alg, loc, fs, mtimes),
              error_files, alg, loc)

SaveHashes(name) ==
  /\ pc = "returned"
  /\ vpc \in {"idle", "returned", "reported"}
  /\ disk' = HashesSaved(name, algorithm, location)
  /\ output_file' = name
  /\ pc' = "saved"
  /\ UNCHANGED <<guiVars, fs, available, mtimes, stop_event, was_stopped, flag_calls, stop_at_start,
                 raised, location, algorithm, max_workers, walk_todo, file_list,
                 futures, collected, results, error_files, completed_files,
                 progress, late_opens, verifyVars>>

\* ------------------------------------------------------------ the stop flag
\* lines 384-386
StopOperation ==
  /\ ~stop_event
  /\ Idle \/ flag_calls < MaxFlagCalls
  /\ stop_event' = TRUE
  /\ was_stopped' = TRUE
  /\ flag_calls' = IF Idle THEN flag_calls ELSE flag_calls + 1
  /\ UNCHANGED <<guiVars, envVars, stop_at_start, raised, scanVars, verifyVars>>

\* lines 388-390, called at any moment
ResetStopEvent ==
  /\ stop_event
  /\ Idle \/ flag_calls < MaxFlagCalls
  /\ stop_event' = FALSE
  /\ flag_calls' = IF Idle THEN flag_calls ELSE flag_calls + 1
  /\ UNCHANGED <<guiVars, envVars, was_stopped, stop_at_start, raised, scanVars,
                 verifyVars>>

\* ------------------------------------------------- the files being changed
\* the files changed since the model's first state
Touched == {p \in AllFiles : mtimes[p] > InitialMtime}

\* another program rewrites a readable file while no operation runs
ModifyFile(p, c) ==
  /\ Idle
  /\ IsFile(fs, p) /\ fs[p].mode = "ok" /\ fs[p].content # c
  /\ p \notin Touched
  /\ Cardinality(Touched) < MaxTouches
  /\ fs' = [fs EXCEPT ![p] = RegularFile(c)]
  /\ mtimes' = [mtimes EXCEPT ![p] = @ + 1]
  /\ UNCHANGED <<guiVars, available, disk, output_file, stop_event, was_stopped, flag_calls,
                 stop_at_start, raised, scanVars, verifyVars>>

\* another program deletes a file while no operation runs
DeleteFile(p) ==
  /\ Idle
  /\ IsFile(fs, p)
  /\ p \notin Touched
  /\ Cardinality(Touched) < MaxTouches
  /\ fs' = [fs EXCEPT ![p] = Missing]
  /\ mtimes' = [mtimes EXCEPT ![p] = @ + 1]
  /\ UNCHANGED <<guiVars, available, disk, output_file, stop_event, was_stopped, flag_calls,
                 stop_at_start, raised, scanVars, verifyVars>>

\* ------------------------------------------------------ the scan's behaviours
ScanFs ==
  {f \in [AllFiles -> FileStates] :
      /\ \A p \in AllFiles \ TreeFiles : f[p] = Missing
      /\ f[ScanRoot \o <<"b">>] \in {Missing, RegularFile(Prefix(1))}
      /\ f[SubDir \o <<"a">>] \in {Missing, RegularFile(Prefix(1))}}

InitRest ==
  /\ stop_event = FALSE /\ was_stopped = FALSE /\ stop_at_start = FALSE
  /\ flag_calls = 0
  /\ raised = NoException
  /\ mtimes = [p \in AllFiles |-> InitialMtime]
  /\ output_file = <<>>
  /\ pc = "idle"
  /\ location = ScanRoot /\ algorithm = "SHA256" /\ max_workers = 1
  /\ walk_todo = <<>> /\ file_list = <<>> /\ futures = <<>> /\ collected = {}
  /\ results = EmptyMap /\ error_files = <<>> /\ completed_files = 0
  /\ progress = <<>> /\ late_opens = {}
  /\ vpc = "idle"
  /\ manifest = NoData /\ base_path = None /\ v_todo = <<>>
  /\ current_path = None /\ v_call = NoCall /\ hash_calls = <<>>
  /\ v_results = EmptyMap /\ corrupted_files = <<>> /\ v_error_files = <<>>
  /\ v_completed_files = 0 /\ v_progress = <<>>
  /\ generate_btn = "normal" /\ stop_btn = "disabled"
  /\ save_btn = "disabled"
  /\ verify_btn = "normal" /\ verify_stop_btn = "disabled"
  /\ save_report_btn = "disabled"
  /\ gui_hash_file = <<>> /\ auto_filename = <<>> /\ report_filename = <<>>
  /\ tk_error = NoException

InitOps == disk = EmptyDisk /\ InitRest

InitScan ==
  /\ fs \in ScanFs
  /\ available = GetSupportedAlgorithms(FALSE, FALSE)
  /\ InitOps

NextScan ==
  \/ \E loc \in Locations, alg \in RequestedAlgorithms, mw \in 1..MaxWorkers :
        ScanStart(loc, alg, mw)
  \/ WalkDir
  \/ Submit
  \/ TaskTake
  \/ \E i \in Indices : TaskEnter(i)
  \/ \E i \in Indices : TaskChunk(i)
  \/ \E i \in Indices : Collect(i)
  \/ ScanReturn
  \/ StopOperation
  \/ ResetStopEvent

SpecScan == InitScan /\ [][NextScan]_vars

\* The scan with its threads scheduled: the calling thread is never kept from
\* its next statement, a free worker takes a queued task, and every chunk
\* read returns.
FairScan ==
  /\ WF_vars(WalkDir) /\ WF_vars(Submit) /\ WF_vars(TaskTake)
  /\ \A i \in 1..Cardinality(TreeFiles) : WF_vars(TaskEnter(i))
  /\ \A i \in 1..Cardinality(TreeFiles) : WF_vars(TaskChunk(i))
  /\ WF_vars(\E i \in Indices : Collect(i))
  /\ WF_vars(ScanReturn)

\* the trees of the scheduled scan: the first file is the longest or cannot
\* be opened
ScanLiveFs ==
  {f \in ScanFs :
      f[ScanRoot \o <<"a">>] \in {RegularFile(Prefix(MaxChunks)), NoPermFile}}

InitScanLive ==
  /\ fs \in ScanLiveFs
  /\ available = GetSupportedAlgorithms(FALSE, FALSE)
  /\ InitOps

SpecScanLive == InitScanLive /\ [][NextScan]_vars /\ FairScan

\* -------------------------------------------------------- verify_integrity
\* a JSON text whose top level is an array of strings, as json.load returns it
JsonList(items) == [list |-> items]

IsJsonList(data) == DOMAIN data = {"list"}

\* key in data: among the keys of a dict, among the elements of a list
Contains(data, key) ==
  IF IsJsonList(data) THEN \E i \in DOMAIN data.list : data.list[i] = key
  ELSE key \in DOMAIN data

\* lines 251-265: the parsed JSON, or None when it cannot be read or lacks a
\* required section
LoadHashes(data) ==
  IF data = Unreadable THEN NoData
  ELSE IF ~Contains(data, "metadata") \/ ~Contains(data, "hashes") THEN NoData
  ELSE data

\* ResolvePath with the stored full path tried before base_path
ResolvePathFullFirst(f, base, rel_path, full_path) ==
  IF full_path # <<>> /\ Exists(f, full_path) THEN full_path
  ELSE IF base # None /\ base # <<>> /\ Exists(f, Join(base, rel_path))
    THEN Join(base, rel_path)
  ELSE IF rel_path # <<>> /\ Exists(f, rel_path) THEN rel_path
  ELSE None

\* ResolvePath with the relative path as the fallback, existing or not
ResolvePathFallsBack(f, base, rel_path, full_path) ==
  IF base # None /\ base # <<>> /\ Exists(f, Join(base, rel_path))
    THEN Join(base, rel_path)
  ELSE IF full_path # <<>> /\ Exists(f, full_path) THEN full_path
  ELSE rel_path

\* ResolvePath with the stored full path taken without the exists test
ResolvePathStoredUntested(f, base, rel_path, full_path) ==
  IF base # None /\ base # <<>> /\ Exists(f, Join(base, rel_path))
    THEN Join(base, rel_path)
  ELSE IF full_path # <<>> THEN full_path
  ELSE IF rel_path # <<>> /\ Exists(f, rel_path) THEN rel_path
  ELSE None

\* lines 290-297: the path to digest, first match wins
ResolvePath(f, base, rel_path, full_path) ==
  IF base # None /\ base # <<>> /\ Exists(f, Join(base, rel_path))
    THEN Join(base, rel_path)
  ELSE IF full_path # <<>> /\ Exists(f, full_path) THEN full_path
  ELSE IF rel_path # <<>> /\ Exists(f, rel_path) THEN rel_path
  ELSE None

\* Classify with an outcome of its own for a digest that is None
ClassifyWithSixthOutcome(call, stored_hash) ==
  IF call.raised # NoException THEN "VERIFICATION_ERROR"
  ELSE IF call.ret = None THEN "UNREADABLE"
  ELSE IF call.ret = stored_hash THEN "MATCH"
  ELSE "MISMATCH"

\* Classify without the None test of line 311
ClassifyWithoutNoneTest(call, stored_hash) ==
  IF call.raised # NoException THEN "VERIFICATION_ERROR"
  ELSE IF call.ret = stored_hash THEN "MATCH"
  ELSE "MISMATCH"

\* lines 308-327: the outcome of one entry from the finished call
Classify(call, stored_hash) ==
  IF call.raised # NoException THEN "VERIFICATION_ERROR"
  ELSE IF call.ret = None THEN "READ_ERROR"
  ELSE IF call.ret = stored_hash THEN "MATCH"
  ELSE "MISMATCH"

CorruptionRecord(path, rel_path, stored_hash, current_hash, alg) ==
  [path |-> path, relative_path |-> rel_path, stored_hash |-> stored_hash,
   current_hash |-> current_hash, algorithm |-> alg]

\* ErrorsAfter without the append of line 313
ErrorsAfterNoReadError(errs, rel_path, outcome, call) ==
  IF outcome = "VERIFICATION_ERROR"
    THEN Append(errs, rel_path \o <<" - Verification error: ", call.raised>>)
  ELSE errs

\* lines 311-327: the error entry of an outcome, if it has one
ErrorsAfter(errs, rel_path, outcome, call) ==
  IF outcome = "READ_ERROR"
    THEN Append(errs, rel_path \o <<" - Unable to read file">>)
  ELSE IF outcome = "VERIFICATION_ERROR"
    THEN Append(errs, rel_path \o <<" - Verification error: ", call.raised>>)
  ELSE errs

\* CorruptedAfter with a record for every digest computed, equal or not
CorruptedAfterAnyDigest(recs, outcome, path, rel_path, stored_hash, call, alg) ==
  IF call.ret # None
    THEN Append(recs, CorruptionRecord(path, rel_path, stored_hash, call.ret, alg))
    ELSE recs

\* CorruptedAfter with the stored digest written in both digest fields
CorruptedAfterStoredTwice(recs, outcome, path, rel_path, stored_hash, call, alg) ==
  IF outcome = "MISMATCH"
    THEN Append(recs, CorruptionRecord(path, rel_path, stored_hash, stored_hash, alg))
    ELSE recs

\* lines 316-324: the corruption record of an outcome, if it has one
CorruptedAfter(recs, outcome, path, rel_path, stored_hash, call, alg) ==
  IF outcome = "MISMATCH"
    THEN Append(recs, CorruptionRecord(path, rel_path, stored_hash, call.ret, alg))
    ELSE recs

\* lines 270-281: load_hashes and the locals; hash_data['metadata'] at line
\* 274 raises TypeError when load_hashes let a list through
VerifyLocals(data) ==
  /\ manifest' = LoadHashes(data)
  /\ v_results' = EmptyMap /\ corrupted_files' = <<>>
  /\ v_completed_files' = 0 /\ v_progress' = <<>>
  /\ hash_calls' = <<>> /\ current_path' = None /\ v_call' = NoCall
  /\ IF LoadHashes(data) = NoData
       THEN /\ v_error_files' = << <<"Failed to load hash file">> >>
            /\ v_todo' = <<>>
            /\ raised' = NoException
            /\ vpc' = "returned"
     ELSE IF IsJsonList(data)
       THEN /\ v_error_files' = <<>>
            /\ v_todo' = <<>>
            /\ raised' = "TypeError"
            /\ vpc' = "returned"
       ELSE /\ v_error_files' = <<>>
            /\ v_todo' = data.hashes
            /\ raised' = NoException
            /\ vpc' = "loop"

\* verify_integrity called on the engine while nothing else runs
VerifyStart(data, base) ==
  /\ Idle
  /\ was_stopped' = stop_event /\ stop_at_start' = stop_event
  /\ flag_calls' = 0
  /\ base_path' = base
  /\ VerifyLocals(data)
  /\ pc' = "idle" /\ location' = ScanRoot /\ algorithm' = "SHA256"
  /\ max_workers' = 1 /\ walk_todo' = <<>> /\ file_list' = <<>>
  /\ futures' = <<>> /\ collected' = {} /\ results' = EmptyMap
  /\ error_files' = <<>> /\ completed_files' = 0 /\ progress' = <<>>
  /\ late_opens' = {}
  /\ UNCHANGED <<guiVars, envVars, stop_event>>

\* lines 283-309: the loop head, the path resolution, and either the
\* FILE_NOT_FOUND entry or the entry into calculate_file_hash
VerifyNext ==
  /\ vpc = "loop"
  /\ IF v_todo = <<>> \/ stop_event
       THEN /\ vpc' = "returned"
            /\ UNCHANGED <<v_todo, current_path, v_call, hash_calls, v_results,
                           v_error_files, v_completed_files, v_progress>>
       ELSE LET e == Head(v_todo)
                cp == ResolvePath(fs, base_path, e.rel_path, e.full_path)
            IN IF cp = None
                 THEN /\ v_results' = Put(v_results, e.rel_path, "FILE_NOT_FOUND")
                      /\ v_error_files' =
                           Append(v_error_files, e.rel_path \o <<" - File not found">>)
                      /\ v_completed_files' = v_completed_files + 1
                      /\ v_progress' = ReportProgress(v_progress,
                                         v_completed_files + 1,
                                         Len(manifest.hashes), e.rel_path)
                      /\ v_todo' = Tail(v_todo)
                      /\ current_path' = None
                      /\ vpc' = "loop"
                      /\ UNCHANGED <<v_call, hash_calls>>
                 ELSE /\ current_path' = cp
                      /\ v_call' = CalcEnter(QueuedCall(cp),
                                             manifest.metadata.algorithm,
                                             fs, available)
                      /\ hash_calls' = Append(hash_calls, cp)
                      /\ vpc' = "hashing"
                      /\ UNCHANGED <<v_todo, v_results, v_error_files,
                                     v_completed_files, v_progress>>
  /\ flag_calls' = IF v_todo = <<>> \/ stop_event THEN 0 ELSE flag_calls
  /\ UNCHANGED <<guiVars, envVars, stop_event, was_stopped, stop_at_start,
                 raised, scanVars, manifest,
                 base_path, corrupted_files>>

\* the call made at line 309 reads the next chunk
VerifyChunk ==
  /\ vpc = "hashing"
  /\ v_call.st = "running"
  /\ v_call' = CalcRead(v_call, manifest.metadata.algorithm, fs, stop_event)
  /\ UNCHANGED <<guiVars, envVars, stop_event, was_stopped, flag_calls, stop_at_start, raised, scanVars, vpc,
                 manifest, base_path, v_todo, current_path, hash_calls,
                 v_results, corrupted_files, v_error_files, v_completed_files,
                 v_progress>>

\* lines 311-331: the call has returned; the entry is classified and reported
VerifyClassify ==
  /\ vpc = "hashing"
  /\ v_call.st = "done"
  /\ LET e == Head(v_todo)
         alg == manifest.metadata.algorithm
         outcome == Classify(v_call, e.hash)
     IN /\ v_results' = Put(v_results, e.rel_path, outcome)
        /\ v_error_files' = ErrorsAfter(v_error_files, e.rel_path, outcome, v_call)
        /\ corrupted_files' = CorruptedAfter(corrupted_files, outcome,
                                current_path, e.rel_path, e.hash, v_call, alg)
        /\ v_completed_files' = v_completed_files + 1
        /\ v_progress' = ReportProgress(v_progress, v_completed_files + 1,
                                        Len(manifest.hashes), current_path)
  /\ v_todo' = Tail(v_todo)
  /\ vpc' = "loop"
  /\ UNCHANGED <<guiVars, envVars, stop_event, was_stopped, flag_calls, stop_at_start, raised, scanVars, manifest,
                 base_path, current_path, v_call, hash_calls>>

\* -------------------------------------------------- save_verification_report
Count(res, outcome) == Cardinality({k \in DOMAIN res : res[k] = outcome})

\* lines 348-354
Summary(res) ==
  [matches |-> Count(res, "MATCH"),
   mismatches |-> Count(res, "MISMATCH"),
   not_found |-> Count(res, "FILE_NOT_FOUND"),
   read_errors |-> Count(res, "READ_ERROR"),
   verification_errors |-> Count(res, "VERIFICATION_ERROR")]

\* results.items(): the keys in the order verify_integrity inserted them
OutcomeOrder(res, m) == [i \in 1..Cardinality(DOMAIN res) |-> m.hashes[i].rel_path]

\* lines 339-358: the report as a JSON value
ReportJson(res, order, corrupted, errs, hash_file) ==
  LET sm == Summary(res) IN
  JObj(<<
    Member(<<"metadata">>, JObj(<<
      Member(<<"verification_time">>, JStr(<<Timestamp>>)),
      Member(<<"source_hash_file">>, JStr(hash_file)),
      Member(<<"total_files_checked">>, JNum(Cardinality(DOMAIN res))),
      Member(<<"corrupted_files">>, JNum(Len(corrupted))),
      Member(<<"error_files">>, JNum(Len(errs))),
      Member(<<"application">>, JStr(<<Application>>))>>)),
    Member(<<"summary">>, JObj(<<
      Member(<<"matches">>, JNum(sm.matches)),
      Member(<<"mismatches">>, JNum(sm.mismatches)),
      Member(<<"not_found">>, JNum(sm.not_found)),
      Member(<<"read_errors">>, JNum(sm.read_errors)),
      Member(<<"verification_errors">>, JNum(sm.verification_errors))>>)),
    Member(<<"detailed_results">>, JObj([i \in DOMAIN order |->
      Member(order[i], JStr(<<res[order[i]]>>))])),
    Member(<<"corrupted_files">>, JArr([i \in DOMAIN corrupted |-> JObj(<<
      Member(<<"path">>, JStr(corrupted[i].path)),
      Member(<<"relative_path">>, JStr(corrupted[i].relative_path)),
      Member(<<"stored_hash">>, JStr(corrupted[i].stored_hash)),
      Member(<<"current_hash">>, JStr(corrupted[i].current_hash)),
      Member(<<"algorithm">>, JStr(<<corrupted[i].algorithm>>))>>)])),
    Member(<<"errors">>, JArr([i \in DOMAIN errs |-> JStr(errs[i])]))>>)

\* lines 367-376: the plain-text listing of the corrupted files
CorruptedListing(corrupted, hash_file) ==
  <<TextLine(<<"Corrupted Files Report - ", Timestamp>>),
    TextLine(<<"Source: ">> \o hash_file),
    TextLine(<<"Total corrupted files: ">>)>>
  \o [i \in DOMAIN corrupted |->
        TextLine(corrupted[i].relative_path \o corrupted[i].path
                 \o <<corrupted[i].algorithm>> \o corrupted[i].stored_hash
                 \o corrupted[i].current_hash)]

\* lines 360-376: what the two open(..., 'w') leave on the disk
WriteReport(d, name, report, corrupted, hash_file) ==
  LET main == [d EXCEPT ![name] = FileOf(JsonDump(report))]
  IN IF corrupted # <<>>
       THEN [main EXCEPT ![Replace(name, ".json", "_corrupted.txt")] =
                            FileOf(CorruptedListing(corrupted, hash_file))]
       ELSE main

\* lines 335-382, called with what verify_integrity returned
ReportSaved(name, source) ==
  WriteReport(disk, name,
              ReportJson(v_results, OutcomeOrder(v_results, manifest),
                         corrupted_files, v_error_files, source),
              corrupted_files, source)

SaveVerificationReport(name, source) ==
  /\ vpc = "returned" /\ raised = NoException
  /\ pc \in {"idle", "returned", "saved"}
  /\ disk' = ReportSaved(name, source)
  /\ output_file' = name
  /\ vpc' = "reported"
  /\ UNCHANGED <<guiVars, fs, available, mtimes, stop_event, was_stopped, flag_calls, stop_at_start,
                 raised, scanVars, manifest, base_path, v_todo, current_path,
                 v_call, hash_calls, v_results, corrupted_files, v_error_files,
                 v_completed_files, v_progress>>

\* ------------------------------------------------ the verifier's behaviours
KeyA == <<"a">>
KeyB == <<"b">>

VerifyFs ==
  {f \in [AllFiles -> FileStates] :
      /\ f[SubDir \o <<"a">>] = Missing
      /\ f[ScanRoot \o <<"b">>] \in {Missing, RegularFile(Prefix(1))}
      /\ f[AltRoot \o <<"a">>] \in {Missing, RegularFile(Prefix(1)), NoPermFile}
      /\ f[AltRoot \o <<"b">>] \in {Missing, RegularFile(Prefix(1))}}

BasePaths == {None, AltRoot, ScanRoot}

VerifyAlgorithms == {"SHA256", "UNKNOWN"}

StoredHashes(alg) == {DigestOf(alg, Prefix(n)) : n \in 1..2}

Entries(alg, k) ==
  {[rel_path |-> k, hash |-> h, full_path |-> Join(ScanRoot, k)] :
      h \in StoredHashes(alg)}

HashLists(alg) ==
  {<<>>} \cup {<<ea>> : ea \in Entries(alg, KeyA)}
         \cup {<<ea, eb>> : ea \in Entries(alg, KeyA), eb \in Entries(alg, KeyB)}

HashFiles ==
  {Unreadable, [metadata |-> [algorithm |-> "SHA256"]],
   [hashes |-> <<>>], [errors |-> <<>>],
   JsonList(<<"metadata", "hashes">>), JsonList(<<"metadata">>)}
  \cup UNION {{[metadata |-> [algorithm |-> alg], hashes |-> hs,
                  errors |-> <<>>] : hs \in HashLists(alg)} :
                alg \in VerifyAlgorithms}

InitVerify ==
  /\ fs \in VerifyFs
  /\ available = GetSupportedAlgorithms(FALSE, FALSE)
  /\ InitOps

NextVerify ==
  \/ \E data \in HashFiles, base \in BasePaths : VerifyStart(data, base)
  \/ VerifyNext
  \/ VerifyChunk
  \/ VerifyClassify
  \/ StopOperation
  \/ ResetStopEvent

SpecVerify == InitVerify /\ [][NextVerify]_vars

\* ------------------------------------------------------- claims on the scan
Range(seq) == {seq[k] : k \in DOMAIN seq}

Occurrences(seq, x) == Cardinality({k \in DOMAIN seq : seq[k] = x})

\* the regular files a complete walk of loc finds
FilesUnder(f, loc) ==
  IF IsFile(f, loc) THEN {loc}
  ELSE IF IsDir(f, loc) THEN {p \in AllFiles : IsFile(f, p) /\ IsPrefix(loc, p)}
  ELSE {}

\* C1: a scan that ran to its end with the stop flag never set has put every
\* file found in exactly one output: in results, under its own path and with
\* the digest its task returned, or once in error_files when the task
\* returned None; the two outputs together count the files found.
C1_EveryPathInExactlyOneOutput ==
  (pc = "returned" /\ ~was_stopped) =>
    /\ Range(file_list) = FilesUnder(fs, location)
    /\ \A i \in Indices :
         LET p == file_list[i] IN
         /\ futures[i].ret # None =>
              /\ p \in DOMAIN results /\ results[p] = futures[i].ret
              /\ p \notin Range(error_files)
         /\ futures[i].ret = None =>
              /\ p \notin DOMAIN results
              /\ Occurrences(error_files, p) = 1
    /\ Cardinality(DOMAIN results) + Len(error_files) = Len(file_list)

C1_Witness ==
  /\ pc = "returned" /\ ~was_stopped
  /\ Len(file_list) = 3
  /\ DOMAIN results # {} /\ error_files # <<>>

\* C2 (as stated): when scan_location returns, the progress callback has been
\* called once for every file found, also when the run was stopped.
C2_ProgressForEveryPath ==
  pc = "returned" => Len(progress) = Len(file_list)

\* C2 (amended): the progress callback is called once for each future the
\* collecting loop takes, never twice for a path, so the calls number
\* len(results)+len(error_files); they number the files found when the stop
\* flag was never set, digest failures included.
C2_ProgressOncePerCollected ==
  /\ Len(progress) = Cardinality(DOMAIN results) + Len(error_files)
  /\ Len(progress) <= Len(file_list)
  /\ \A j, k \in DOMAIN progress :
       /\ progress[k][3] \in Range(file_list)
       /\ j # k => progress[j][3] # progress[k][3]
  /\ (pc = "returned" /\ ~was_stopped) => Len(progress) = Len(file_list)

C2_Witness ==
  /\ pc = "returned" /\ was_stopped
  /\ Len(progress) > 0 /\ Len(progress) < Len(file_list)
  /\ error_files # <<>>

\* C3: a scan asked for an algorithm outside the available set fails as a
\* whole with UnsupportedAlgorithm: nothing is dispatched and no file is
\* reported as a per-file failure.
C3_UnsupportedAlgorithmFailsWhole ==
  (pc # "idle" /\ algorithm \notin available) =>
    /\ futures = <<>>
    /\ error_files = <<>>
    /\ pc = "returned" => raised = "UnsupportedAlgorithm"

\* C4: no task that starts after the stop flag was set opens a file.
C4_NoOpenAfterStop == late_opens = {}

\* C5: a scan during which the stop flag was set returns normally, with
\* len(results)+len(error_files) <= M, and every entry of results is the
\* digest of the whole content of a file of the input list.
C5_StoppedScanPartialButSound ==
  (pc = "returned" /\ was_stopped) =>
    /\ raised = NoException
    /\ Cardinality(DOMAIN results) + Len(error_files) <= Len(file_list)
    /\ \A p \in DOMAIN results :
         /\ p \in Range(file_list)
         /\ results[p] = DigestOf(algorithm, StateOf(fs, p).content)

C5_Witness ==
  /\ pc = "returned" /\ was_stopped
  /\ DOMAIN results # {}
  /\ Cardinality(DOMAIN results) + Len(error_files) < Len(file_list)

\* C6: a scan of a location that does not exist fails with LocationNotFound
\* or LocationUnreadable.
C6_MissingLocationFails ==
  (pc = "returned" /\ ~Exists(fs, location)) =>
    raised \in {"LocationNotFound", "LocationUnreadable"}

\* --------------------------------------------------- both operations together
InitBoth ==
  /\ fs \in ScanFs \cap VerifyFs
  /\ available = GetSupportedAlgorithms(FALSE, FALSE)
  /\ InitOps

NextBoth == NextScan \/ NextVerify

Spec == InitBoth /\ [][NextBoth]_vars

\* -------------------------------------------------- verify, then report
\* verifications, the last of which is written out as a report
NextReport ==
  \/ /\ disk = EmptyDisk
     /\ \E data \in HashFiles, base \in BasePaths : VerifyStart(data, base)
  \/ VerifyNext
  \/ VerifyChunk
  \/ VerifyClassify
  \/ StopOperation
  \/ ResetStopEvent
  \/ \E name \in ReportNames : SaveVerificationReport(name, <<"m", ".json">>)

SpecReport == InitBoth /\ [][NextReport]_vars

\* ------------------------------------------- scan, save, change, verify
PipelineFs ==
  {f \in [AllFiles -> FileStates] :
      /\ f[ScanRoot \o <<"a">>] \in {RegularFile(<<>>), RegularFile(Prefix(1)),
                                     NoPermFile}
      /\ f[ScanRoot \o <<"b">>] \in {Missing, RegularFile(Prefix(1))}
      /\ f[SubDir \o <<"a">>] = Missing
      /\ f[AltRoot \o <<"a">>] = RegularFile(Prefix(2))
      /\ f[AltRoot \o <<"b">>] = Missing}

InitPipeline ==
  /\ fs \in PipelineFs
  /\ available = GetSupportedAlgorithms(FALSE, FALSE)
  /\ InitOps

\* One scan is saved, the saved manifest is verified and the last verification
\* is written out as a report; the files change between the end of the scan
\* and the first verification.
NextPipeline ==
  \/ /\ disk = EmptyDisk
     /\ \E loc \in Locations : ScanStart(loc, "SHA256", 1)
  \/ WalkDir
  \/ Submit
  \/ TaskTake
  \/ \E i \in Indices : TaskEnter(i)
  \/ \E i \in Indices : TaskChunk(i)
  \/ \E i \in Indices : Collect(i)
  \/ ScanReturn
  \/ \E name \in ManifestNames : SaveHashes(name)
  \/ /\ pc \in {"returned", "saved"}
     /\ \E p \in TreeFiles, c \in Contents : ModifyFile(p, c)
  \/ /\ pc \in {"returned", "saved"}
     /\ \E p \in TreeFiles : DeleteFile(p)
  \/ /\ output_file \in ManifestNames
     /\ \E base \in {None, AltRoot} :
          VerifyStart(JsonLoadFile(disk[output_file]), base)
  \/ VerifyNext
  \/ VerifyChunk
  \/ VerifyClassify
  \/ /\ output_file \in ManifestNames
     /\ \E name \in ReportNames : SaveVerificationReport(name, output_file)
  \/ StopOperation
  \/ ResetStopEvent

SpecPipeline == InitPipeline /\ [][NextPipeline]_vars

\* ------------------------------------------------------------ scan, then save
\* a tree with files of the same name in two directories
SaveFs ==
  {f \in [AllFiles -> {Missing, RegularFile(<<>>), NoPermFile}] :
      \A p \in AllFiles \ TreeFiles : f[p] = Missing}

InitSave ==
  /\ fs \in SaveFs
  /\ available = GetSupportedAlgorithms(FALSE, FALSE)
  /\ InitOps

\* One scan, whose result is saved once; the scanned location may be deleted
\* before the save.
NextSave ==
  \/ /\ disk = EmptyDisk
     /\ \E loc \in Locations, mw \in 1..MaxWorkers : ScanStart(loc, "SHA256", mw)
  \/ WalkDir
  \/ Submit
  \/ TaskTake
  \/ \E i \in Indices : TaskEnter(i)
  \/ \E i \in Indices : TaskChunk(i)
  \/ \E i \in Indices : Collect(i)
  \/ ScanReturn
  \/ /\ pc = "returned"
     /\ \E p \in TreeFiles : DeleteFile(p)
  \/ \E name \in ManifestNames : SaveHashes(name)
  \/ StopOperation
  \/ ResetStopEvent

SpecSave == InitSave /\ [][NextSave]_vars

\* ------------------------------------------------------------------ the GUI
\* scan_location has been called and has not returned
Scanning == pc \in {"walk", "listed", "pool", "shutdown"}

\* verify_integrity has been called and has not returned
Verifying == vpc \in {"loop", "hashing"}

\* lines 814-834 and 865-867: the Generate button; the flag is cleared and
\* hash_thread is started with the location, the algorithm and the thread
\* count read from the window
GenerateHashes(loc, alg, mw) ==
  /\ generate_btn = "normal"
  /\ Exists(fs, loc)
  /\ generate_btn' = "disabled" /\ stop_btn' = "normal"
  /\ save_btn' = "disabled"
  /\ stop_event' = FALSE
  /\ location' = loc /\ algorithm' = alg /\ max_workers' = mw
  /\ pc' = "thread"
  /\ UNCHANGED <<verify_btn, verify_stop_btn, save_report_btn, gui_hash_file,
                 auto_filename, report_filename, tk_error,
                 envVars, was_stopped, flag_calls, stop_at_start, raised,
                 walk_todo, file_list, futures, collected, results,
                 error_files, completed_files, progress, late_opens,
                 verifyVars>>

\* lines 836-845: hash_thread calls scan_location
HashThreadCall ==
  /\ pc = "thread"
  /\ ScanLocals(location)
  /\ was_stopped' = (stop_event \/ (Verifying /\ was_stopped))
  /\ stop_at_start' = stop_event
  /\ flag_calls' = 0
  /\ UNCHANGED <<guiVars, envVars, stop_event, location, algorithm,
                 max_workers, verifyVars>>

\* lines 846-854 and 186-230: scan_location has returned; when the box is
\* ticked and there is something to save, hash_thread calls save_hashes with
\* a name of its own, and save_hashes builds the dict and creates the file
HashThreadSave(autosave, ts) ==
  /\ pc = "returned"
  /\ IF autosave /\ (results # EmptyMap \/ error_files # <<>>)
       THEN /\ auto_filename' = AutoManifestName(ts)
            /\ output_file' = AutoManifestName(ts)
            /\ disk' = Opened(disk, AutoManifestName(ts))
            /\ pc' = "dump"
       ELSE /\ UNCHANGED <<auto_filename, output_file, disk>>
            /\ pc' = "after_save"
  /\ UNCHANGED <<generate_btn, stop_btn, save_btn, verify_btn,
                 verify_stop_btn, save_report_btn, gui_hash_file,
                 report_filename, tk_error, fs, available, mtimes,
                 stop_event, was_stopped, flag_calls, stop_at_start, raised,
                 location, algorithm, max_workers, walk_todo, file_list,
                 futures, collected, results, error_files, completed_files,
                 progress, late_opens, verifyVars>>

\* lines 231-234: json.dump and the end of the with block put the text in the
\* file; the dict is the one built at lines 191-227
HashThreadDump ==
  /\ pc = "dump"
  /\ disk' = [disk EXCEPT ![auto_filename] =
                FileOf(JsonDump(ManifestJson(
                  ManifestData(ResultOrder(progress, results), results,
                               error_files, algorithm, location, fs,
                               mtimes))))]
  /\ pc' = IF error_files # <<>> THEN "listing" ELSE "after_save"
  /\ UNCHANGED <<guiVars, fs, available, mtimes, output_file, stop_event,
                 was_stopped, flag_calls, stop_at_start, raised, location,
                 algorithm, max_workers, walk_todo, file_list, futures,
                 collected, results, error_files, completed_files, progress,
                 late_opens, verifyVars>>

\* lines 235-236: the error listing is created
HashThreadListing ==
  /\ pc = "listing"
  /\ disk' = Opened(disk, Replace(auto_filename, ".json", "_errors.txt"))
  /\ pc' = "listing_write"
  /\ UNCHANGED <<guiVars, fs, available, mtimes, output_file, stop_event,
                 was_stopped, flag_calls, stop_at_start, raised, location,
                 algorithm, max_workers, walk_todo, file_list, futures,
                 collected, results, error_files, completed_files, progress,
                 late_opens, verifyVars>>

\* lines 237-245: the error listing is written, and save_hashes returns
HashThreadListingWrite ==
  /\ pc = "listing_write"
  /\ disk' = [disk EXCEPT ![Replace(auto_filename, ".json", "_errors.txt")] =
                FileOf(ErrorListing(error_files, algorithm, location))]
  /\ pc' = "after_save"
  /\ UNCHANGED <<guiVars, fs, available, mtimes, output_file, stop_event,
                 was_stopped, flag_calls, stop_at_start, raised, location,
                 algorithm, max_workers, walk_todo, file_list, futures,
                 collected, results, error_files, completed_files, progress,
                 late_opens, verifyVars>>

\* lines 855-863: hash_thread leaves display_hash_results and
\* hash_generation_complete to the main loop, and ends
HashThreadEnd ==
  /\ pc = "after_save"
  /\ pc' = "finished"
  /\ UNCHANGED <<guiVars, envVars, stop_event, was_stopped, flag_calls,
                 stop_at_start, raised, location, algorithm, max_workers,
                 walk_todo, file_list, futures, collected, results,
                 error_files, completed_files, progress, late_opens,
                 verifyVars>>

\* lines 869-909, run by the main loop once hash_thread has ended
DisplayHashResults ==
  /\ pc = "finished"
  /\ save_btn' = IF results # EmptyMap \/ error_files # <<>>
                   THEN "normal" ELSE save_btn
  /\ pc' = "displayed"
  /\ UNCHANGED <<generate_btn, stop_btn, verify_btn, verify_stop_btn,
                 save_report_btn, gui_hash_file, auto_filename,
                 report_filename, tk_error, envVars, stop_event,
                 was_stopped, flag_calls, stop_at_start, raised, location,
                 algorithm, max_workers, walk_todo, file_list, futures,
                 collected, results, error_files, completed_files, progress,
                 late_opens, verifyVars>>

\* lines 911-917, run by the main loop after display_hash_results
HashGenerationComplete ==
  /\ pc = "displayed"
  /\ generate_btn' = "normal" /\ stop_btn' = "disabled"
  /\ pc' = "idle"
  /\ UNCHANGED <<save_btn, verify_btn, verify_stop_btn, save_report_btn,
                 gui_hash_file, auto_filename, report_filename, tk_error,
                 envVars, stop_event, was_stopped, flag_calls,
                 stop_at_start, raised, location, algorithm, max_workers,
                 walk_todo, file_list, futures, collected, results,
                 error_files, completed_files, progress, late_opens,
                 verifyVars>>

\* lines 919-933: the Save Results button; asksaveasfilename is called with
\* the option initialvalue, which the file dialog does not have, and raises
\* TclError, so that lines 935-946 are never reached and nothing is written
SaveResults ==
  /\ save_btn = "normal"
  /\ IF results # EmptyMap \/ error_files # <<>>
       THEN tk_error' = "TclError"
       ELSE UNCHANGED tk_error
  /\ UNCHANGED <<generate_btn, stop_btn, save_btn, verify_btn,
                 verify_stop_btn, save_report_btn, gui_hash_file,
                 auto_filename, report_filename, envVars, stop_event,
                 was_stopped, flag_calls, stop_at_start, raised, scanVars,
                 verifyVars>>

\* lines 948-967 and 997-999: the Verify button; the flag is cleared and
\* verify_thread is started with the hash file and the base path read from
\* the window
VerifyFiles(name, base) ==
  /\ verify_btn = "normal"
  /\ disk[name].exists
  /\ verify_btn' = "disabled" /\ verify_stop_btn' = "normal"
  /\ save_report_btn' = "disabled"
  /\ stop_event' = FALSE
  /\ gui_hash_file' = name /\ base_path' = base
  /\ vpc' = "thread"
  /\ UNCHANGED <<generate_btn, stop_btn, save_btn, auto_filename,
                 report_filename, tk_error, envVars, was_stopped,
                 flag_calls, stop_at_start, raised, scanVars, manifest,
                 v_todo, current_path, v_call, hash_calls, v_results,
                 corrupted_files, v_error_files, v_completed_files,
                 v_progress>>

\* lines 969-977: verify_thread calls verify_integrity, which loads the file
VerifyThreadCall ==
  /\ vpc = "thread"
  /\ VerifyLocals(JsonLoadFile(disk[gui_hash_file]))
  /\ was_stopped' = (stop_event \/ (Scanning /\ was_stopped))
  /\ stop_at_start' = stop_event
  /\ flag_calls' = 0
  /\ UNCHANGED <<guiVars, envVars, stop_event, scanVars, base_path>>

\* lines 978-986 and 335-360: verify_integrity has returned; when the box is
\* ticked and there are results, verify_thread calls
\* save_verification_report with a name of its own, which builds the report
\* and creates the file; an exception of verify_integrity skips all this
VerifyThreadSave(autosave, ts) ==
  /\ vpc = "returned"
  /\ IF raised = NoException /\ autosave /\ v_results # EmptyMap
       THEN /\ report_filename' = AutoReportName(ts)
            /\ output_file' = AutoReportName(ts)
            /\ disk' = Opened(disk, AutoReportName(ts))
            /\ vpc' = "dump"
       ELSE /\ UNCHANGED <<report_filename, output_file, disk>>
            /\ vpc' = "after_save"
  /\ UNCHANGED <<generate_btn, stop_btn, save_btn, verify_btn,
                 verify_stop_btn, save_report_btn, gui_hash_file,
                 auto_filename, tk_error, fs, available, mtimes, stop_event,
                 was_stopped, flag_calls, stop_at_start, raised, scanVars,
                 manifest, base_path, v_todo, current_path, v_call,
                 hash_calls, v_results, corrupted_files, v_error_files,
                 v_completed_files, v_progress>>

\* lines 361-364: json.dump and the end of the with block put the report in
\* the file
VerifyThreadDump ==
  /\ vpc = "dump"
  /\ disk' = [disk EXCEPT ![report_filename] =
                FileOf(JsonDump(
                  ReportJson(v_results, OutcomeOrder(v_results, manifest),
                             corrupted_files, v_error_files, gui_hash_file)))]
  /\ vpc' = IF corrupted_files # <<>> THEN "listing" ELSE "after_save"
  /\ UNCHANGED <<guiVars, fs, available, mtimes, output_file, stop_event,
                 was_stopped, flag_calls, stop_at_start, raised, scanVars,
                 manifest, base_path, v_todo, current_path, v_call,
                 hash_calls, v_results, corrupted_files, v_error_files,
                 v_completed_files, v_progress>>

\* lines 365-366: the listing of the corrupted files is created
VerifyThreadListing ==
  /\ vpc = "listing"
  /\ disk' = Opened(disk, Replace(report_filename, ".json", "_corrupted.txt"))
  /\ vpc' = "listing_write"
  /\ UNCHANGED <<guiVars, fs, available, mtimes, output_file, stop_event,
                 was_stopped, flag_calls, stop_at_start, raised, scanVars,
                 manifest, base_path, v_todo, current_path, v_call,
                 hash_calls, v_results, corrupted_files, v_error_files,
                 v_completed_files, v_progress>>

\* lines 367-378: the listing is written, and save_verification_report
\* returns
VerifyThreadListingWrite ==
  /\ vpc = "listing_write"
  /\ disk' = [disk EXCEPT
                ![Replace(report_filename, ".json", "_corrupted.txt")] =
                  FileOf(CorruptedListing(corrupted_files, gui_hash_file))]
  /\ vpc' = "after_save"
  /\ UNCHANGED <<guiVars, fs, available, mtimes, output_file, stop_event,
                 was_stopped, flag_calls, stop_at_start, raised, scanVars,
                 manifest, base_path, v_todo, current_path, v_call,
                 hash_calls, v_results, corrupted_files, v_error_files,
                 v_completed_files, v_progress>>

\* lines 987-995: verify_thread leaves display_verify_results and
\* verification_complete to the main loop, and ends
VerifyThreadEnd ==
  /\ vpc = "after_save"
  /\ vpc' = "finished"
  /\ UNCHANGED <<guiVars, envVars, stop_event, was_stopped, flag_calls,
                 stop_at_start, raised, scanVars, manifest, base_path,
                 v_todo, current_path, v_call, hash_calls, v_results,
                 corrupted_files, v_error_files, v_completed_files,
                 v_progress>>

\* lines 1001-1082, run by the main loop once verify_thread has ended,
\* unless the thread ended with an exception
DisplayVerifyResults ==
  /\ vpc = "finished"
  /\ save_report_btn' = IF raised = NoException /\ v_results # EmptyMap
                          THEN "normal" ELSE save_report_btn
  /\ vpc' = "displayed"
  /\ UNCHANGED <<generate_btn, stop_btn, save_btn, verify_btn,
                 verify_stop_btn, gui_hash_file, auto_filename,
                 report_filename, tk_error, envVars, stop_event,
                 was_stopped, flag_calls, stop_at_start, raised, scanVars,
                 manifest, base_path, v_todo, current_path, v_call,
                 hash_calls, v_results, corrupted_files, v_error_files,
                 v_completed_files, v_progress>>

\* lines 1084-1090, run by the main loop after display_verify_results
VerificationComplete ==
  /\ vpc = "displayed"
  /\ verify_btn' = "normal" /\ verify_stop_btn' = "disabled"
  /\ vpc' = "idle"
  /\ UNCHANGED <<generate_btn, stop_btn, save_btn, save_report_btn,
                 gui_hash_file, auto_filename, report_filename, tk_error,
                 envVars, stop_event, was_stopped, flag_calls,
                 stop_at_start, raised, scanVars, manifest, base_path, v_todo,
                 current_path, v_call, hash_calls, v_results, corrupted_files,
                 v_error_files, v_completed_files, v_progress>>

\* lines 1092-1106: the Save Report button; asksaveasfilename raises TclError
\* as it does for Save Results, and lines 1108-1119 are never reached
SaveReport ==
  /\ save_report_btn = "normal"
  /\ IF v_results # EmptyMap
       THEN tk_error' = "TclError"
       ELSE UNCHANGED tk_error
  /\ UNCHANGED <<generate_btn, stop_btn, save_btn, verify_btn,
                 verify_stop_btn, save_report_btn, gui_hash_file,
                 auto_filename, report_filename, envVars, stop_event,
                 was_stopped, flag_calls, stop_at_start, raised, scanVars,
                 verifyVars>>

\* lines 1121-1126: either Stop button
GuiStopOperation ==
  /\ stop_btn = "normal" \/ verify_stop_btn = "normal"
  /\ StopOperation

GuiFs ==
  {f \in [AllFiles -> FileStates] :
      /\ f[ScanRoot \o <<"a">>] \in {RegularFile(Prefix(1)), NoPermFile}
      /\ \A p \in AllFiles \ {ScanRoot \o <<"a">>} : f[p] = Missing}

\* the files the Verify tab is pointed at: the given one and the ones
\* hash_thread wrote
GuiHashFiles ==
  {GivenHashFile} \cup {AutoManifestName(ts) : ts \in Timestamps}
  \cup {Replace(AutoManifestName(ts), ".json", "_errors.txt") : ts \in Timestamps}

\* the given hash file: an earlier scan of the tree, saved
GivenHashText(f, stored) ==
  JsonDump(ManifestJson(
    ManifestData(<<ScanRoot \o <<"a">>>>,
                 [p \in {ScanRoot \o <<"a">>} |-> stored], <<>>, "SHA256",
                 ScanRoot, f, [p \in AllFiles |-> InitialMtime])))

\* nothing that hash_thread wrote is on the disk
NoManifestSaved == \A n \in AllManifestNames : ~disk[n].exists

\* nothing that verify_thread wrote is on the disk
NoReportSaved == \A n \in AllReportNames : ~disk[n].exists

InitGui ==
  /\ fs \in GuiFs
  /\ available = GetSupportedAlgorithms(FALSE, FALSE)
  /\ \E stored \in StoredHashes("SHA256") :
        disk = [EmptyDisk EXCEPT
                  ![GivenHashFile] = FileOf(GivenHashText(fs, stored))]
  /\ InitRest

\* The buttons pressed in any order the window allows, the two threads they
\* start and the callbacks the threads leave to the main loop; Generate is
\* pressed until a manifest is on the disk and Verify until a report is.
NextGui ==
  \/ /\ NoManifestSaved
     /\ \E loc \in Locations : GenerateHashes(loc, "SHA256", MaxWorkers)
  \/ HashThreadCall
  \/ WalkDir
  \/ Submit
  \/ TaskTake
  \/ \E i \in Indices : TaskEnter(i)
  \/ \E i \in Indices : TaskChunk(i)
  \/ \E i \in Indices : Collect(i)
  \/ ScanReturn
  \/ \E autosave \in BOOLEAN, ts \in Timestamps : HashThreadSave(autosave, ts)
  \/ HashThreadDump
  \/ HashThreadListing
  \/ HashThreadListingWrite
  \/ HashThreadEnd
  \/ DisplayHashResults
  \/ HashGenerationComplete
  \/ SaveResults
  \/ /\ NoReportSaved
     /\ \E name \in GuiHashFiles : VerifyFiles(name, None)
  \/ VerifyThreadCall
  \/ VerifyNext
  \/ VerifyChunk
  \/ VerifyClassify
  \/ \E autosave \in BOOLEAN, ts \in Timestamps : VerifyThreadSave(autosave, ts)
  \/ VerifyThreadDump
  \/ VerifyThreadListing
  \/ VerifyThreadListingWrite
  \/ VerifyThreadEnd
  \/ DisplayVerifyResults
  \/ VerificationComplete
  \/ SaveReport
  \/ GuiStopOperation

SpecGui == InitGui /\ [][NextGui]_vars

\* --------------------------------------------------- claims on the verifier
\* the manifest entry of a key
EntryOf(rel) == CHOOSE e \in Range(manifest.hashes) : e.rel_path = rel

Loaded == manifest # NoData /\ ~IsJsonList(manifest)

\* the call of calculate_file_hash on p fails whatever the stop flag does
Failing(alg, p) == alg \notin available \/ StateOf(fs, p).mode # "ok"

\* C7: a failure local to one file neither leaves scan_location or
\* verify_integrity as an exception nor ends the pass: in a pass the stop flag
\* did not cut short, every failing path is in the error list and every other
\* path has its result (a digest in the scan, MATCH or MISMATCH in the
\* verification), and progress was reported for all of them.
C7_LocalFailureDoesNotAbort ==
  /\ (pc = "returned" /\ ~was_stopped) =>
       /\ raised = NoException
       /\ Len(progress) = Len(file_list)
       /\ \A i \in Indices :
            IF Failing(algorithm, file_list[i])
              THEN file_list[i] \in Range(error_files)
              ELSE file_list[i] \in DOMAIN results
  /\ (vpc = "returned" /\ ~was_stopped /\ Loaded) =>
       /\ raised = NoException
       /\ Len(v_progress) = Len(manifest.hashes)
       /\ \A k \in DOMAIN manifest.hashes :
            LET e == manifest.hashes[k]
                cp == ResolvePath(fs, base_path, e.rel_path, e.full_path)
            IN /\ e.rel_path \in DOMAIN v_results
               /\ cp # None =>
                    IF Failing(manifest.metadata.algorithm, cp)
                      THEN /\ v_results[e.rel_path] = "READ_ERROR"
                           /\ e.rel_path \o <<" - Unable to read file">>
                                 \in Range(v_error_files)
                      ELSE v_results[e.rel_path] \in {"MATCH", "MISMATCH"}

C7_Witness ==
  /\ vpc = "returned" /\ ~was_stopped /\ Loaded
  /\ Len(manifest.hashes) = 2
  /\ v_results[KeyA] = "READ_ERROR"
  /\ v_results[KeyB] = "MATCH"
  /\ available # {}
  /\ manifest.metadata.algorithm \in available

\* C8: the path verify_integrity digests for an entry is the first existing
\* one of: base_path joined with the relative path, the stored full_path, the
\* relative path; and that path is the one a CorruptionRecord reports.
FirstExisting(cp, rel_path, full_path) ==
  LET viaBase == base_path # None /\ Exists(fs, Join(base_path, rel_path))
  IN /\ viaBase => cp = Join(base_path, rel_path)
     /\ (~viaBase /\ Exists(fs, full_path)) => cp = full_path
     /\ (~viaBase /\ ~Exists(fs, full_path) /\ Exists(fs, rel_path)) =>
          cp = rel_path

C8_FirstMatchWins ==
  /\ vpc = "hashing" =>
       /\ FirstExisting(current_path, Head(v_todo).rel_path,
                        Head(v_todo).full_path)
       /\ v_call.path = current_path
       /\ hash_calls[Len(hash_calls)] = current_path
  /\ \A k \in DOMAIN corrupted_files :
       LET r == corrupted_files[k] IN
       FirstExisting(r.path, r.relative_path, EntryOf(r.relative_path).full_path)

C8_Witness ==
  /\ vpc = "returned"
  /\ base_path = AltRoot
  /\ Len(corrupted_files) = 1
  /\ corrupted_files[1].path = Join(AltRoot, KeyA)
  /\ Exists(fs, Join(ScanRoot, KeyA))
  /\ KeyB \in DOMAIN v_results
  /\ v_results[KeyB] = "MATCH"
  /\ ~Exists(fs, EntryOf(KeyB).full_path)

\* C9: when the digest of a resolved entry comes back, None gives READ_ERROR
\* and one more error entry; a digest equal to the stored one gives MATCH; a
\* different digest gives MISMATCH and one more CorruptionRecord, holding the
\* entry's relative path, the stored digest and the current digest. No other
\* step adds a CorruptionRecord.
C9_OutcomeFollowsDigest ==
  [][ /\ (vpc = "hashing" /\ vpc' = "loop") =>
           LET e == Head(v_todo)
               d == v_call.ret
           IN /\ d = None =>
                   /\ v_results'[e.rel_path] = "READ_ERROR"
                   /\ Len(v_error_files') = Len(v_error_files) + 1
                   /\ corrupted_files' = corrupted_files
              /\ (d # None /\ d = e.hash) =>
                   /\ v_results'[e.rel_path] = "MATCH"
                   /\ v_error_files' = v_error_files
                   /\ corrupted_files' = corrupted_files
              /\ (d # None /\ d # e.hash) =>
                   /\ v_results'[e.rel_path] = "MISMATCH"
                   /\ v_error_files' = v_error_files
                   /\ Len(corrupted_files') = Len(corrupted_files) + 1
                   /\ LET r == corrupted_files'[Len(corrupted_files')]
                      IN /\ r.relative_path = e.rel_path
                         /\ r.stored_hash = e.hash
                         /\ r.current_hash = d
                         /\ r.current_hash # r.stored_hash
                         /\ r.path = current_path
      /\ Len(corrupted_files') > Len(corrupted_files) =>
           /\ vpc = "hashing"
           /\ v_call.ret # None
           /\ v_call.ret # Head(v_todo).hash
    ]_vars

C9_Witness ==
  /\ vpc = "returned"
  /\ DOMAIN v_results = {KeyA, KeyB}
  /\ v_results[KeyA] = "READ_ERROR"
  /\ v_results[KeyB] = "MISMATCH"
  /\ Len(corrupted_files) = 1 /\ Len(v_error_files) = 1

\* C10: an entry none of whose three candidate paths exists is recorded as
\* FILE_NOT_FOUND with one error entry of its own, and calculate_file_hash is
\* not called for it: the calls made number the entries that resolved.
NoCandidate(e) ==
  /\ ~(base_path # None /\ Exists(fs, Join(base_path, e.rel_path)))
  /\ ~Exists(fs, e.full_path)
  /\ ~Exists(fs, e.rel_path)

C10_NotFoundIsNotDigested ==
  Loaded =>
    /\ \A rel \in DOMAIN v_results :
         NoCandidate(EntryOf(rel)) =>
           /\ v_results[rel] = "FILE_NOT_FOUND"
           /\ Occurrences(v_error_files, rel \o <<" - File not found">>) = 1
    /\ Len(hash_calls) =
         Cardinality({rel \in DOMAIN v_results :
                        ~NoCandidate(EntryOf(rel))})
         + (IF vpc = "hashing" THEN 1 ELSE 0)

C10_Witness ==
  /\ vpc = "returned" /\ Loaded
  /\ DOMAIN v_results = {KeyA, KeyB}
  /\ v_results[KeyA] = "FILE_NOT_FOUND"
  /\ v_results[KeyB] = "MATCH"
  /\ Len(hash_calls) = 1

\* C11 (as stated): an entry whose stored file was deleted is FILE_NOT_FOUND,
\* whatever base_path and the working directory are.
C11_DeletedIsAlwaysNotFound ==
  Loaded =>
    \A rel \in DOMAIN v_results :
      ~Exists(fs, EntryOf(rel).full_path) => v_results[rel] = "FILE_NOT_FOUND"

\* C11 (amended): an entry whose stored file was deleted is FILE_NOT_FOUND
\* exactly when neither base_path joined with its relative path nor the
\* relative path taken from the working directory exists; when one of them
\* exists that file is digested in its place and the deleted path is never
\* handed to calculate_file_hash. No exception leaves verify_integrity.
C11_DeletedIsNotFoundUnlessElsewhere ==
  Loaded =>
    /\ raised = NoException
    /\ \A rel \in DOMAIN v_results :
         LET e == EntryOf(rel)
             viaBase == base_path # None /\ Exists(fs, Join(base_path, rel))
         IN ~Exists(fs, e.full_path) =>
              /\ v_results[rel] = "FILE_NOT_FOUND" <=> NoCandidate(e)
              /\ e.full_path \notin Range(hash_calls)
              /\ viaBase => Join(base_path, rel) \in Range(hash_calls)
              /\ (~viaBase /\ Exists(fs, rel)) => rel \in Range(hash_calls)

C11_Witness ==
  /\ vpc = "returned" /\ Loaded
  /\ base_path = None
  /\ DOMAIN v_results = {KeyA, KeyB}
  /\ ~Exists(fs, EntryOf(KeyA).full_path)
  /\ ~Exists(fs, EntryOf(KeyB).full_path)
  /\ v_results[KeyA] = "FILE_NOT_FOUND"
  /\ v_results[KeyB] = "MATCH"

\* ------------------------------------------ claims on scan, save and verify
\* no file was rewritten or deleted since the first state
Untouched == \A p \in AllFiles : mtimes[p] = InitialMtime

\* an entry is checked against the file it was made from
OwnFile(e) ==
  LET cp == ResolvePath(fs, base_path, e.rel_path, e.full_path)
  IN cp # None /\ Resolve(cp) = Resolve(e.full_path)

\* C12: a scan is saved with save_hashes and the saved manifest is verified
\* with the files untouched and the stop flag clear: the manifest loads, and
\* when base_path is absent or is the directory the relative paths were taken
\* from, every manifest path is MATCH and the corrupted and error lists are
\* empty.
C12_FreshManifestAllMatch ==
  (vpc = "returned" /\ ~was_stopped /\ Untouched) =>
    /\ Loaded
    /\ base_path \in {None, SaveBase(fs, manifest.metadata.scan_location)} =>
         /\ DOMAIN v_results = {e.rel_path : e \in Range(manifest.hashes)}
         /\ \A rel \in DOMAIN v_results : v_results[rel] = "MATCH"
         /\ corrupted_files = <<>>
         /\ v_error_files = <<>>

\* C13: in a verification the stop flag did not touch, an entry checked
\* against its own file, still readable but with a digest other than the
\* stored one, is MISMATCH and has exactly one CorruptionRecord, whose
\* current_hash is the file's digest now and differs from its stored_hash;
\* every entry whose own file was not changed is MATCH.
C13_ChangedFileIsMismatch ==
  (vpc = "returned" /\ ~was_stopped /\ Loaded) =>
    \A e \in Range(manifest.hashes) :
      LET alg == manifest.metadata.algorithm
          st == StateOf(fs, e.full_path)
          recs == {k \in DOMAIN corrupted_files :
                     corrupted_files[k].relative_path = e.rel_path}
      IN OwnFile(e) =>
           /\ (st.mode = "ok" /\ DigestOf(alg, st.content) # e.hash) =>
                /\ v_results[e.rel_path] = "MISMATCH"
                /\ Cardinality(recs) = 1
                /\ \A k \in recs :
                     /\ corrupted_files[k].stored_hash = e.hash
                     /\ corrupted_files[k].current_hash = DigestOf(alg, st.content)
                     /\ corrupted_files[k].current_hash
                          # corrupted_files[k].stored_hash
           /\ mtimes[Resolve(e.full_path)] = InitialMtime =>
                /\ v_results[e.rel_path] = "MATCH"
                /\ recs = {}

C13_Witness ==
  /\ vpc = "returned" /\ ~was_stopped /\ Loaded
  /\ DOMAIN v_results = {KeyA, KeyB}
  /\ OwnFile(EntryOf(KeyA)) /\ OwnFile(EntryOf(KeyB))
  /\ mtimes[ScanRoot \o KeyA] > InitialMtime
  /\ mtimes[ScanRoot \o KeyB] = InitialMtime
  /\ v_results[KeyA] = "MISMATCH"
  /\ v_results[KeyB] = "MATCH"

\* C17: load_hashes on the file save_hashes has just written returns the
\* manifest save_hashes built: the algorithm and the location of the scan, one
\* entry per digested file with its digest, full path, size and modification
\* time, and the error list.
C17_LoadOfSavedIsWhatWasSaved ==
  [][ (pc = "returned" /\ pc' = "saved") =>
        LET loaded == LoadHashes(JsonLoadFile(disk'[output_file']))
        IN /\ loaded # NoData
           /\ loaded = ManifestData(ResultOrder(progress, results), results,
                                    error_files, algorithm, location, fs, mtimes)
           /\ loaded.metadata.algorithm = algorithm
           /\ loaded.metadata.scan_location = location
           /\ loaded.errors = error_files
           /\ Len(loaded.hashes) = Cardinality(DOMAIN results)
           /\ \A p \in DOMAIN results :
                \E k \in DOMAIN loaded.hashes :
                  /\ loaded.hashes[k].full_path = p
                  /\ loaded.hashes[k].hash = results[p]
                  /\ loaded.hashes[k].size = Stat(fs, mtimes, p).st_size
                  /\ loaded.hashes[k].modified = Stat(fs, mtimes, p).st_mtime
    ]_vars

\* ------------------------------------------------- claims on the report
Outcomes ==
  {"MATCH", "MISMATCH", "FILE_NOT_FOUND", "READ_ERROR", "VERIFICATION_ERROR"}

\* the report file holds the JSON report, not the listing written after it
ReportOnDisk ==
  corrupted_files = <<>>
  \/ Replace(output_file, ".json", "_corrupted.txt") # output_file

\* C14: the outcome mapping verify_integrity returns has one entry for each
\* manifest path it considered and no other, each of them one of the five
\* outcomes; the summary save_verification_report computes from it counts each
\* outcome, the five counts add up to total_files_checked, and these are the
\* numbers read back from the report file.
C14_OneOutcomePerPathAndCountsAgree ==
  /\ (vpc \in {"returned", "reported"} /\ Loaded) =>
       /\ DOMAIN v_results =
            {manifest.hashes[i].rel_path : i \in 1..v_completed_files}
       /\ Cardinality(DOMAIN v_results) = v_completed_files
       /\ \A rel \in DOMAIN v_results : v_results[rel] \in Outcomes
  /\ vpc = "reported" =>
       LET sm == Summary(v_results)
           total == Cardinality(DOMAIN v_results)
       IN /\ sm.matches + sm.mismatches + sm.not_found + sm.read_errors
               + sm.verification_errors = total
          /\ ReportOnDisk =>
               LET rep == JsonParse(disk[output_file].text).v
                   written == Field(rep, <<"summary">>)
                   meta == Field(rep, <<"metadata">>)
               IN /\ Field(written, <<"matches">>).n = Count(v_results, "MATCH")
                  /\ Field(written, <<"mismatches">>).n
                       = Count(v_results, "MISMATCH")
                  /\ Field(written, <<"not_found">>).n
                       = Count(v_results, "FILE_NOT_FOUND")
                  /\ Field(written, <<"read_errors">>).n
                       = Count(v_results, "READ_ERROR")
                  /\ Field(written, <<"verification_errors">>).n
                       = Count(v_results, "VERIFICATION_ERROR")
                  /\ Field(meta, <<"total_files_checked">>).n = total
                  /\ Len(Field(rep, <<"detailed_results">>).kv) = total

C14_Witness ==
  /\ vpc = "reported" /\ Loaded /\ ReportOnDisk
  /\ DOMAIN v_results = {KeyA, KeyB}
  /\ v_results[KeyA] = "READ_ERROR"
  /\ v_results[KeyB] = "MISMATCH"
  /\ Field(Field(JsonParse(disk[output_file].text).v, <<"summary">>),
           <<"mismatches">>).n = 1

\* ------------------------------------- further claims on the verifier
\* C15 (as stated): when verify_integrity returns, progress has been reported
\* once for every entry of the manifest, also when the pass was stopped.
C15_ProgressForEveryEntry ==
  (vpc = "returned" /\ Loaded) => Len(v_progress) = Len(manifest.hashes)

\* C15 (amended): progress is reported once for each entry the loop considers,
\* found or not, readable or not, with the running count, the manifest's size
\* and the path looked at; the calls number the entries of the outcome
\* mapping, and number the manifest's entries when the stop flag was never set.
C15_ProgressOncePerConsidered ==
  Loaded =>
    /\ Len(v_progress) = v_completed_files
    /\ Len(v_progress) = Cardinality(DOMAIN v_results)
    /\ Len(v_progress) <= Len(manifest.hashes)
    /\ \A k \in DOMAIN v_progress :
         LET e == manifest.hashes[k] IN
         /\ v_progress[k][1] = k
         /\ v_progress[k][2] = Len(manifest.hashes)
         /\ v_progress[k][3] =
              IF v_results[e.rel_path] = "FILE_NOT_FOUND" THEN e.rel_path
              ELSE ResolvePath(fs, base_path, e.rel_path, e.full_path)
    /\ (vpc = "returned" /\ ~was_stopped) =>
         Len(v_progress) = Len(manifest.hashes)

C15_Witness ==
  /\ vpc = "returned" /\ Loaded /\ was_stopped
  /\ Len(manifest.hashes) = 2
  /\ Len(v_progress) = 1
  /\ v_results[KeyA] = "FILE_NOT_FOUND"

\* C16: load_hashes returns None for every file whose top level lacks the
\* metadata or the hashes section, so what it returns is None or a dict with
\* both; and verify_integrity on a file it rejects returns normally with empty
\* results, the single error 'Failed to load hash file', and no file resolved
\* or read.
C16_InvalidManifestRejected ==
  /\ manifest = NoData
       \/ ("metadata" \in DOMAIN manifest /\ "hashes" \in DOMAIN manifest)
  /\ raised = NoException
  /\ (vpc = "returned" /\ manifest = NoData) =>
       /\ v_results = EmptyMap /\ corrupted_files = <<>>
       /\ v_error_files = << <<"Failed to load hash file">> >>
       /\ hash_calls = <<>> /\ v_progress = <<>>

\* ---------------------------------------------- claims on the stop flag
\* C18: an operation called with the stop flag set returns an empty result
\* map and empty failure and corruption lists, calls no progress callback and
\* computes no digest.
C18_StoppedCallAbortsAtOnce ==
  stop_at_start =>
    /\ results = EmptyMap /\ error_files = <<>> /\ progress = <<>>
    /\ \A i \in DOMAIN futures : futures[i].ret = None
    /\ Loaded =>
         /\ v_results = EmptyMap /\ corrupted_files = <<>>
         /\ v_error_files = <<>> /\ v_progress = <<>>
         /\ hash_calls = <<>>

\* C19: a call of calculate_file_hash that ends while the stop flag is set
\* returns None, whatever the file holds, an empty file included.
C19_EndsUnderFlagWithNone ==
  [][ \A i \in DOMAIN futures :
        (/\ stop_event
         /\ i \in DOMAIN futures'
         /\ futures[i].st # "done"
         /\ futures'[i].st = "done") => futures'[i].ret = None
    ]_vars

\* C20: while the pool runs, a step of a worker (a step that changes a call)
\* leaves results, error_files and completed_files alone; they change only in
\* a step of the collecting loop, which adds one to the counter and one entry
\* to exactly one of results and error_files. So the counter values reported
\* are 1, 2, 3, ... without a gap or a repeat, and the counter always equals
\* the number of entries recorded.
C20_OnlyTheCollectorWrites ==
  /\ [](/\ completed_files = Cardinality(DOMAIN results) + Len(error_files)
        /\ completed_files = Cardinality(collected)
        /\ \A k \in DOMAIN progress : progress[k][1] = k)
  /\ [][ (pc \in {"pool", "shutdown"} /\ pc' \in {"pool", "shutdown"}) =>
           LET written == \/ results' # results
                          \/ error_files' # error_files
                          \/ completed_files' # completed_files
           IN /\ futures' # futures => ~written
              /\ written =>
                   /\ futures' = futures
                   /\ completed_files' = completed_files + 1
                   /\ Cardinality(DOMAIN results') + Len(error_files')
                        = Cardinality(DOMAIN results) + Len(error_files) + 1
                   /\ \A p \in DOMAIN results :
                        p \in DOMAIN results' /\ results'[p] = results[p]
                   /\ Len(error_files') >= Len(error_files)
                   /\ SubSeq(error_files', 1, Len(error_files)) = error_files
       ]_vars

C20_Witness ==
  /\ pc = "pool"
  /\ Cardinality(Running) = 2
  /\ completed_files = 1
  /\ DOMAIN results # {}

\* ------------------------------------------- claims on resources and counts
\* a call that left its read loop at the stop test of line 84, 94, 104 or 114
StoppedMidFile(call) ==
  call.st = "done" /\ call.path # <<>> /\ call.ret = None
  /\ call.caught = NoException

\* C21: calculate_file_hash holds its file open only inside its read loop: a
\* call that has not started or has returned (with a digest, at the stop test,
\* on an I/O error, on an unsupported algorithm) holds no handle, so no handle
\* is open once scan_location or verify_integrity has returned.
C21_NoHandleOutlivesItsCall ==
  /\ \A i \in DOMAIN futures : futures[i].open <=> futures[i].st = "running"
  /\ v_call.open <=> v_call.st = "running"
  /\ pc = "returned" => \A i \in DOMAIN futures : ~futures[i].open
  /\ vpc = "returned" => ~v_call.open

C21_Witness ==
  /\ pc = "returned"
  /\ \E i, j \in DOMAIN futures :
       /\ StoppedMidFile(futures[i])
       /\ futures[j].caught = "OSError"
  /\ \A i \in DOMAIN futures : ~futures[i].open

\* C27: in both operations the k-th progress call of a pass carries the count
\* k (1 on the first call, one more on each later call), never more than the
\* total, and the same total on every call: the number of files found, or
\* the number of manifest entries; in scan_location the count of the latest
\* call is len(results)+len(error_files).
C27_ProgressCountsRunFromOne ==
  /\ \A k \in DOMAIN progress :
       /\ progress[k][1] = k
       /\ progress[k][1] <= progress[k][2]
       /\ progress[k][2] = Len(file_list)
  /\ progress # <<>> =>
       progress[Len(progress)][1] = Cardinality(DOMAIN results) + Len(error_files)
  /\ \A k \in DOMAIN v_progress :
       /\ v_progress[k][1] = k
       /\ v_progress[k][1] <= v_progress[k][2]
       /\ v_progress[k][2] = Len(manifest.hashes)

C27_Witness ==
  /\ pc = "returned" /\ ~was_stopped
  /\ Len(progress) = 2
  /\ error_files # <<>> /\ DOMAIN results # {}

\* the calls of calculate_file_hash that have started and not returned
Digesting == {i \in DOMAIN futures : futures[i].st = "running"}

\* C28: at every moment of a scan at most max_workers calls of
\* calculate_file_hash have started and not returned, although every file of
\* the list was submitted before the first result is taken.
C28_AtMostMaxWorkersDigesting ==
  /\ Cardinality(Digesting) <= max_workers
  /\ pc \in {"pool", "shutdown"} => Len(futures) = Len(file_list)

C28_Witness ==
  /\ max_workers > 1
  /\ Cardinality(Digesting) = max_workers
  /\ \E i \in DOMAIN futures : futures[i].st = "queued"

\* C23: a digest aborted by the stop flag is not reported as a failure: when
\* the loop of verify_integrity takes a call that returned at the stop test,
\* the path is not classified READ_ERROR and no error entry is appended, and
\* when the loop of scan_location takes such a call the path is not added to
\* error_files.
C23_StoppedDigestIsNotAFailure ==
  [][/\ (vpc = "hashing" /\ StoppedMidFile(v_call) /\ vpc' = "loop") =>
          /\ v_results'[Head(v_todo).rel_path] # "READ_ERROR"
          /\ v_error_files' = v_error_files
     /\ \A i \in DOMAIN futures :
          (StoppedMidFile(futures[i]) /\ i \notin collected /\ i \in collected')
            => error_files' = error_files]_vars

\* the outcomes that come with an error entry
ErrorOutcomes == {"FILE_NOT_FOUND", "READ_ERROR", "VERIFICATION_ERROR"}

\* the three outputs of verify_integrity agree
OutputsAgree ==
  /\ Len(corrupted_files) = Count(v_results, "MISMATCH")
  /\ Len(v_error_files)
       = Cardinality({k \in DOMAIN v_results : v_results[k] \in ErrorOutcomes})
  /\ \A i \in DOMAIN corrupted_files :
       /\ corrupted_files[i].relative_path \in DOMAIN v_results
       /\ v_results[corrupted_files[i].relative_path] = "MISMATCH"

\* C30 (as stated): after any verify_integrity run, complete or cancelled,
\* there is one corruption record per MISMATCH outcome, one error entry per
\* FILE_NOT_FOUND, READ_ERROR or VERIFICATION_ERROR outcome, and every
\* record's relative_path is a key whose outcome is MISMATCH.
C30_OutputsAgreeAfterAnyRun ==
  (vpc = "returned" /\ raised = NoException) => OutputsAgree

\* C30 (amended): the outputs agree in that way at every moment of a run that
\* loaded its manifest, complete or cancelled; a run that could not load it
\* returns no outcome, no record and the one error entry
\* 'Failed to load hash file'.
C30_OutputsAgreeWhenLoaded ==
  /\ Loaded => OutputsAgree
  /\ (vpc = "returned" /\ raised = NoException /\ ~Loaded) =>
       /\ v_results = EmptyMap /\ corrupted_files = <<>>
       /\ v_error_files = << <<"Failed to load hash file">> >>

C30_Witness ==
  /\ vpc = "returned" /\ was_stopped /\ Loaded
  /\ Len(corrupted_files) = 1 /\ Len(v_error_files) = 1
  /\ Len(manifest.hashes) = 2

\* C26: a scan_location call during which the stop flag is set returns, and
\* whenever scan_location returns every task it submitted has finished: none
\* is running and none is queued.
C26_StoppedScanReturnsAfterItsTasks ==
  /\ [](pc = "returned" => \A i \in DOMAIN futures : futures[i].st = "done")
  /\ (Scanning /\ stop_event) ~> (pc = "returned")

C26_Witness ==
  /\ pc = "returned" /\ was_stopped
  /\ Len(futures) = 3
  /\ collected # Indices
  /\ \E i \in DOMAIN futures : StoppedMidFile(futures[i])

\* ------------------------------------------------ claims on the files written
\* line 235 and line 365: the names of the companion listings
ErrorsName(name) == Replace(name, ".json", "_errors.txt")

CorruptedName(name) == Replace(name, ".json", "_corrupted.txt")

\* the text of a file is one of the plain-text listings
IsListing(text) == text # <<>> /\ Head(text).t = "text"

\* C22: when save_hashes has returned, the file at the companion name holds
\* the error listing exactly when the scan's error list is non-empty, and
\* when save_verification_report has returned, the file at its companion
\* name holds the corruption listing exactly when the corrupted-files list is
\* non-empty; with an empty list no listing is written anywhere.
C22_ListingExactlyWhenNonEmpty ==
  /\ pc = "saved" =>
       /\ error_files # <<>> =>
            disk[ErrorsName(output_file)]
              = FileOf(ErrorListing(error_files, algorithm, location))
       /\ error_files = <<>> => \A n \in DiskNames : ~IsListing(disk[n].text)
  /\ vpc = "reported" =>
       /\ corrupted_files # <<>> =>
            \E hash_file \in ManifestNames :
               disk[CorruptedName(output_file)]
                 = FileOf(CorruptedListing(corrupted_files, hash_file))
       /\ corrupted_files = <<>> =>
            ~IsListing(disk[CorruptedName(output_file)].text)

C22_Witness ==
  /\ vpc = "reported" /\ corrupted_files # <<>>
  /\ IsListing(disk[CorruptedName(output_file)].text)
  /\ CorruptedName(output_file) # output_file
  /\ IsListing(disk[ErrorsName(<<"m", ".json">>)].text)

\* C24: after save_hashes has returned, the file at output_file holds the
\* JSON manifest with an entry for every digested file, for every output file
\* name and also when the error list is non-empty; after
\* save_verification_report has returned, the file at output_file holds the
\* JSON report: a companion listing never takes the place of either.
C24_ListingNeverReplacesTheJson ==
  /\ pc = "saved" =>
       /\ ~IsListing(disk[output_file].text)
       /\ JsonLoadFile(disk[output_file]) # Unreadable
       /\ {e.full_path : e \in Range(JsonLoadFile(disk[output_file]).hashes)}
            = DOMAIN results
  /\ vpc = "reported" => ~IsListing(disk[output_file].text)

\* C29: in every manifest save_hashes has written, metadata.total_files is
\* the number of entries of the hashes mapping and metadata.error_files the
\* length of the errors list: the digested files have distinct relative-path
\* keys, each file has its entry, and none took the place of another.
C29_CountsAreTheEntries ==
  (pc = "saved" /\ ~IsListing(disk[output_file].text)) =>
    LET m == JsonLoadFile(disk[output_file]) IN
    /\ m.metadata.total_files = Len(m.hashes)
    /\ m.metadata.error_files = Len(m.errors)
    /\ \A i, j \in DOMAIN m.hashes :
         i # j => m.hashes[i].rel_path # m.hashes[j].rel_path
    /\ {e.full_path : e \in Range(m.hashes)} = DOMAIN results
    /\ m.errors = error_files

C29_Witness ==
  /\ pc = "saved" /\ ~IsListing(disk[output_file].text)
  /\ {ScanRoot \o <<"a">>, SubDir \o <<"a">>} \subseteq DOMAIN results
  /\ Len(error_files) = 1

\* C25: in the GUI a stop that was requested is seen by the operation it was
\* meant for: no button clears the stop flag while a scan or a verification is
\* still running, and the scan thread and the verification thread are never
\* alive together.
C25_StopReachesTheRunningOperation ==
  /\ [](~(Scanning /\ Verifying))
  /\ [][(stop_event /\ ~stop_event') => ~(Scanning \/ Verifying)]_vars

====
